---- MODULE Spec2Model ----
(***************************************************************************)
(* Verification model of the netflow-collector: the bounded flow store     *)
(* with hybrid eviction (internal/store), the UDP listener pipeline        *)
(* (internal/listener, cmd/collector) and the template-driven parsers      *)
(* (internal/parser).                                                      *)
(***************************************************************************)
EXTENDS Integers, Sequences, FiniteSets, TLC

(***************************************************************************)
(* Bounds of the model.                                                    *)
(***************************************************************************)
\* largest number of flows in one Add batch
MaxBatch == 2
\* last instant of the wall clock
MaxTime == 2
\* cap on the number of flows ever passed to Add of the smallest store
MaxTotal == 3
\* the smallest --max-flows value the store is constructed with
StoreCap == 1
\* cap on the flowsets of one datagram
MaxSets == 2
\* cap on the datagrams that arrive at the socket
MaxDatagrams == 4
\* the capacity of the UDP -> parser channel (1000 in the program)
ChanCap == 2

(***************************************************************************)
(* Flow records (pkg/types Flow).  A time.Time is an integer instant, the  *)
(* zero time is 0 and the clock starts at 1.                               *)
(***************************************************************************)
NetFlowV5 == 5
NetFlowV9 == 9
IPFIX == 10

\* a zero-valued types.Flow; a net.IP is its byte sequence (nil is <<>>)
ZeroFlow ==
  [Version |-> 0, SrcAddr |-> <<>>, DstAddr |-> <<>>, SrcPort |-> 0, DstPort |-> 0,
   Protocol |-> 0, Bytes |-> 0, Packets |-> 0, StartTime |-> 0, EndTime |-> 0,
   TCPFlags |-> 0, SrcAS |-> 0, DstAS |-> 0, InputIf |-> 0, OutputIf |-> 0,
   ExporterIP |-> <<>>, ReceivedAt |-> 0, LastAccessed |-> 0]

\* the exporters' addresses
ExporterA == <<192, 0, 2, 1>>
ExporterB == <<192, 0, 2, 2>>

\* the 5-tuples, versions and exporters the modelled exporters report
Tuples ==
  { [SrcAddr |-> <<10, 0, 0, 1>>, SrcPort |-> 1234, DstAddr |-> <<8, 8, 8, 8>>,
     DstPort |-> 53, Protocol |-> 17, Version |-> NetFlowV5, ExporterIP |-> ExporterA],
    [SrcAddr |-> <<10, 0, 0, 2>>, SrcPort |-> 4321, DstAddr |-> <<1, 1, 1, 1>>,
     DstPort |-> 443, Protocol |-> 6, Version |-> NetFlowV9, ExporterIP |-> ExporterB] }

MkFlow(t, b) ==
  [ZeroFlow EXCEPT !.Version = t.Version, !.SrcAddr = t.SrcAddr, !.DstAddr = t.DstAddr,
                   !.SrcPort = t.SrcPort, !.DstPort = t.DstPort,
                   !.Protocol = t.Protocol, !.Bytes = b, !.Packets = b + 1,
                   !.ExporterIP = t.ExporterIP]

TupleA == CHOOSE t \in Tuples : t.Version = NetFlowV5
TupleB == CHOOSE t \in Tuples : t.Version = NetFlowV9

\* the flows a parsed datagram can carry: the first exporter reports the small
\* bytes values, the second one a larger flow
InputFlows == { MkFlow(TupleA, b) : b \in {0, 1} } \cup { MkFlow(TupleB, 2) }

Batches == UNION { [1..n -> InputFlows] : n \in 0..MaxBatch }

\* "%s:%d-%s:%d-%d" of the 5-tuple, kept as the tuple it prints
FlowKey(f) == <<f.SrcAddr, f.SrcPort, f.DstAddr, f.DstPort, f.Protocol>>

FlowKeys == { FlowKey(f) : f \in InputFlows }

(***************************************************************************)
(* State.                                                                  *)
(***************************************************************************)
\* ---------------------------------------------------------------------------
\* Parser: datagrams are byte sequences, decoded as the Go code decodes them
\* ---------------------------------------------------------------------------

\* binary.BigEndian readers at the 0-based offset off of the byte sequence d
U16(d, off) == d[off + 1] * 256 + d[off + 2]
U32(d, off) == U16(d, off) * 65536 + U16(d, off + 2)
U64(d, off) == IF U32(d, off) = 0 THEN U32(d, off + 4)
               ELSE U32(d, off) * 65536 * 65536 + U32(d, off + 4)

\* d[from:to]
Slice(d, from, to) == SubSeq(d, from + 1, to)

\* m[k] = v on a Go map held as a function
MapPut(m, k, v) == [x \in DOMAIN m \cup {k} |-> IF x = k THEN v ELSE m[x]]

netflowV5HeaderSize == 24
netflowV5RecordSize == 48
netflowV9HeaderSize == 20
netflowV9FlowsetHdrSize == 4
ipfixHeaderSize == 16
ipfixSetHeaderSize == 4

NF9_IN_BYTES == 1
NF9_IN_PKTS == 2
NF9_PROTOCOL == 4
NF9_TCP_FLAGS == 6
NF9_L4_SRC_PORT == 7
NF9_IPV4_SRC_ADDR == 8
NF9_INPUT_SNMP == 10
NF9_L4_DST_PORT == 11
NF9_IPV4_DST_ADDR == 12
NF9_OUTPUT_SNMP == 14
NF9_SRC_AS == 16
NF9_DST_AS == 17
NF9_LAST_SWITCHED == 21
NF9_FIRST_SWITCHED == 22
NF9_IPV6_SRC_ADDR == 27
NF9_IPV6_DST_ADDR == 28

IPFIX_OCTET_DELTA_COUNT == 1
IPFIX_PACKET_DELTA_COUNT == 2
IPFIX_PROTOCOL_IDENTIFIER == 4
IPFIX_TCP_CONTROL_BITS == 6
IPFIX_SOURCE_TRANSPORT_PORT == 7
IPFIX_SOURCE_IPV4_ADDRESS == 8
IPFIX_INGRESS_INTERFACE == 10
IPFIX_DEST_TRANSPORT_PORT == 11
IPFIX_DEST_IPV4_ADDRESS == 12
IPFIX_EGRESS_INTERFACE == 14
IPFIX_BGP_SOURCE_AS == 16
IPFIX_BGP_DEST_AS == 17
IPFIX_FLOW_END_SYS_UP_TIME == 21
IPFIX_FLOW_START_SYS_UP_TIME == 22
IPFIX_SOURCE_IPV6_ADDRESS == 27
IPFIX_DEST_IPV6_ADDRESS == 28
IPFIX_FLOW_START_MILLISEC == 152
IPFIX_FLOW_END_MILLISEC == 153

\* readUint: 1, 2, 4 and 8 byte unsigned integers, 0 for any other length
readUint(data) ==
  CASE Len(data) = 1 -> data[1]
    [] Len(data) = 2 -> U16(data, 0)
    [] Len(data) = 4 -> U32(data, 0)
    [] Len(data) = 8 -> U64(data, 0)
    [] OTHER -> 0

EmptyMap == [x \in {} |-> 0]

\* Template.Length: the sum of the field lengths from the i-th definition on
RECURSIVE SumLengths(_, _)
SumLengths(defs, i) == IF i > Len(defs) THEN 0 ELSE defs[i].Length + SumLengths(defs, i + 1)

\* a cache that keeps the template an id was first defined with
KeepTemplate(tmpl, templateID, template) ==
  IF templateID \in DOMAIN tmpl THEN tmpl ELSE MapPut(tmpl, templateID, template)

\* p.v9Templates[sourceID][templateID] = template, and the same for
\* p.ipfixTemplates: the map entry of the id is replaced
StoreTemplate(tmpl, templateID, template) == MapPut(tmpl, templateID, template)

\* the templates of one template flowset, stored into the map tmpl of the
\* datagram's source id
RECURSIVE parseV9Templates(_, _, _)
parseV9Templates(data, offset, tmpl) ==
  IF offset + 4 > Len(data) THEN tmpl
  ELSE LET templateID == U16(data, offset)
           fieldCount == U16(data, offset + 2)
           off == offset + 4
       IN IF fieldCount * 4 + off > Len(data) THEN tmpl
          ELSE LET defs == [i \in 1..fieldCount |->
                              [Type |-> U16(data, off + 4 * (i - 1)),
                               Length |-> U16(data, off + 4 * (i - 1) + 2)]]
                   template == [ID |-> templateID, FieldDefs |-> defs,
                                Length |-> SumLengths(defs, 1)]
               IN parseV9Templates(data, off + 4 * fieldCount,
                                   StoreTemplate(tmpl, templateID, template))

\* one field of a v9 record written into the flow; panic is the run-time
\* panic of an index or a fixed-width read beyond the field's bytes
V9Field(flow, type, fieldData, bootTime) ==
  LET n == Len(fieldData)
      ok(f) == [panic |-> FALSE, flow |-> f]
      bad == [panic |-> TRUE, flow |-> flow]
  IN CASE type \in {NF9_IPV4_SRC_ADDR, NF9_IPV6_SRC_ADDR} ->
            ok([flow EXCEPT !.SrcAddr = fieldData])
       [] type \in {NF9_IPV4_DST_ADDR, NF9_IPV6_DST_ADDR} ->
            ok([flow EXCEPT !.DstAddr = fieldData])
       [] type = NF9_L4_SRC_PORT ->
            IF n < 2 THEN bad ELSE ok([flow EXCEPT !.SrcPort = U16(fieldData, 0)])
       [] type = NF9_L4_DST_PORT ->
            IF n < 2 THEN bad ELSE ok([flow EXCEPT !.DstPort = U16(fieldData, 0)])
       [] type = NF9_PROTOCOL ->
            IF n < 1 THEN bad ELSE ok([flow EXCEPT !.Protocol = fieldData[1]])
       [] type = NF9_IN_BYTES -> ok([flow EXCEPT !.Bytes = readUint(fieldData)])
       [] type = NF9_IN_PKTS -> ok([flow EXCEPT !.Packets = readUint(fieldData)])
       [] type = NF9_TCP_FLAGS ->
            IF n < 1 THEN bad ELSE ok([flow EXCEPT !.TCPFlags = fieldData[1]])
       [] type = NF9_SRC_AS -> ok([flow EXCEPT !.SrcAS = readUint(fieldData)])
       [] type = NF9_DST_AS -> ok([flow EXCEPT !.DstAS = readUint(fieldData)])
       [] type = NF9_INPUT_SNMP ->
            ok([flow EXCEPT !.InputIf = readUint(fieldData) % 65536])
       [] type = NF9_OUTPUT_SNMP ->
            ok([flow EXCEPT !.OutputIf = readUint(fieldData) % 65536])
       [] type = NF9_FIRST_SWITCHED ->
            IF n < 4 THEN bad
            ELSE ok([flow EXCEPT !.StartTime = bootTime + U32(fieldData, 0)])
       [] type = NF9_LAST_SWITCHED ->
            IF n < 4 THEN bad
            ELSE ok([flow EXCEPT !.EndTime = bootTime + U32(fieldData, 0)])
       [] OTHER -> ok(flow)

\* the fields of one v9 record from the i-th field definition on;
\* nil is the record the decoder gives up on
RECURSIVE parseV9Fields(_, _, _, _, _, _)
parseV9Fields(record, defs, i, offset, flow, bootTime) ==
  IF i > Len(defs) THEN [panic |-> FALSE, nil |-> FALSE, flow |-> flow]
  ELSE IF offset + defs[i].Length > Len(record)
       THEN [panic |-> FALSE, nil |-> TRUE, flow |-> flow]
       ELSE LET r == V9Field(flow, defs[i].Type,
                             Slice(record, offset, offset + defs[i].Length), bootTime)
            IN IF r.panic THEN [panic |-> TRUE, nil |-> FALSE, flow |-> flow]
               ELSE parseV9Fields(record, defs, i + 1, offset + defs[i].Length,
                                  r.flow, bootTime)

parseV9Record(record, template, sourceAddr, bootTime, t) ==
  parseV9Fields(record, template.FieldDefs, 1, 0,
                [ZeroFlow EXCEPT !.Version = NetFlowV9, !.ExporterIP = sourceAddr,
                                 !.ReceivedAt = t],
                bootTime)

\* the records of one data flowset from offset on
RECURSIVE parseV9Records(_, _, _, _, _, _, _)
parseV9Records(data, offset, template, sourceAddr, bootTime, t, acc) ==
  IF offset + template.Length > Len(data) THEN [panic |-> FALSE, flows |-> acc]
  ELSE LET r == parseV9Record(Slice(data, offset, offset + template.Length),
                              template, sourceAddr, bootTime, t)
       IN IF r.panic THEN [panic |-> TRUE, flows |-> acc]
          ELSE parseV9Records(data, offset + template.Length, template, sourceAddr,
                              bootTime, t, IF r.nil THEN acc ELSE Append(acc, r.flow))

parseV9DataFlowSet(data, template, sourceAddr, bootTime, t) ==
  IF template.Length = 0 THEN [panic |-> FALSE, flows |-> <<>>]
  ELSE parseV9Records(data, 0, template, sourceAddr, bootTime, t, <<>>)

\* the flowset loop of parseNetFlowV9 from the i-th flowset at offset on
RECURSIVE V9FlowSets(_, _, _, _, _, _, _, _, _)
V9FlowSets(data, i, count, offset, tmpl, flows, sourceAddr, bootTime, t) ==
  LET done == [panic |-> FALSE, flows |-> flows, tmpl |-> tmpl]
  IN IF ~(i < count /\ offset + netflowV9FlowsetHdrSize <= Len(data)) THEN done
     ELSE LET flowsetID == U16(data, offset)
              flowsetLen == U16(data, offset + 2)
          IN IF flowsetLen < 4 \/ offset + flowsetLen > Len(data) THEN done
             ELSE LET flowsetData == Slice(data, offset + 4, offset + flowsetLen)
                      next(tm, fl) == V9FlowSets(data, i + 1, count, offset + flowsetLen,
                                                 tm, fl, sourceAddr, bootTime, t)
                  IN CASE flowsetID = 0 -> next(parseV9Templates(flowsetData, 0, tmpl), flows)
                       [] flowsetID >= 256 /\ flowsetID \in DOMAIN tmpl ->
                            LET r == parseV9DataFlowSet(flowsetData, tmpl[flowsetID],
                                                        sourceAddr, bootTime, t)
                            IN IF r.panic
                               THEN [panic |-> TRUE, flows |-> flows, tmpl |-> tmpl]
                               ELSE next(tmpl, flows \o r.flows)
                       [] OTHER -> next(tmpl, flows)

\* parseNetFlowV9 on the cache v9T: the flows, the error, whether the call
\* panicked, and the cache it leaves
parseNetFlowV9(data, sourceAddr, v9T, t) ==
  IF Len(data) < netflowV9HeaderSize
  THEN [flows |-> <<>>, err |-> TRUE, panic |-> FALSE, templates |-> v9T]
  ELSE LET count == U16(data, 2)
           sysUptime == U32(data, 4)
           unixSecs == U32(data, 8)
           sourceID == U32(data, 16)
           bootTime == unixSecs * 1000 - sysUptime
           tmpl == IF sourceID \in DOMAIN v9T THEN v9T[sourceID] ELSE EmptyMap
           r == V9FlowSets(data, 0, count, netflowV9HeaderSize, tmpl, <<>>,
                           sourceAddr, bootTime, t)
       IN [flows |-> IF r.panic THEN <<>> ELSE r.flows, err |-> FALSE,
           panic |-> r.panic, templates |-> MapPut(v9T, sourceID, r.tmpl)]

\* the field specifiers of one IPFIX template record: the enterprise bit is
\* stripped, the enterprise number skipped, and the field kept
RECURSIVE parseIPFIXFields(_, _, _, _, _)
parseIPFIXFields(data, offset, i, fieldCount, defs) ==
  IF ~(i < fieldCount /\ offset + 4 <= Len(data)) THEN [offset |-> offset, defs |-> defs]
  ELSE LET fieldType == U16(data, offset)
           fieldLen == U16(data, offset + 2)
           isEnterprise == fieldType >= 32768
           off == offset + 4
       IN parseIPFIXFields(data,
                           IF isEnterprise /\ off + 4 <= Len(data) THEN off + 4 ELSE off,
                           i + 1, fieldCount,
                           Append(defs, [Type |-> fieldType % 32768, Length |-> fieldLen]))

RECURSIVE parseIPFIXTemplates(_, _, _)
parseIPFIXTemplates(data, offset, tmpl) ==
  IF offset + 4 > Len(data) THEN tmpl
  ELSE LET templateID == U16(data, offset)
           fieldCount == U16(data, offset + 2)
           r == parseIPFIXFields(data, offset + 4, 0, fieldCount, <<>>)
           template == [ID |-> templateID, FieldDefs |-> r.defs,
                        Length |-> SumLengths(r.defs, 1)]
       IN parseIPFIXTemplates(data, r.offset, StoreTemplate(tmpl, templateID, template))

\* one field of an IPFIX record written into the flow
IPFIXField(flow, type, fieldData, baseTime) ==
  LET n == Len(fieldData)
      ok(f) == [panic |-> FALSE, flow |-> f]
      bad == [panic |-> TRUE, flow |-> flow]
  IN CASE type \in {IPFIX_SOURCE_IPV4_ADDRESS, IPFIX_SOURCE_IPV6_ADDRESS} ->
            ok([flow EXCEPT !.SrcAddr = fieldData])
       [] type \in {IPFIX_DEST_IPV4_ADDRESS, IPFIX_DEST_IPV6_ADDRESS} ->
            ok([flow EXCEPT !.DstAddr = fieldData])
       [] type = IPFIX_SOURCE_TRANSPORT_PORT ->
            IF n < 2 THEN bad ELSE ok([flow EXCEPT !.SrcPort = U16(fieldData, 0)])
       [] type = IPFIX_DEST_TRANSPORT_PORT ->
            IF n < 2 THEN bad ELSE ok([flow EXCEPT !.DstPort = U16(fieldData, 0)])
       [] type = IPFIX_PROTOCOL_IDENTIFIER ->
            IF n < 1 THEN bad ELSE ok([flow EXCEPT !.Protocol = fieldData[1]])
       [] type = IPFIX_OCTET_DELTA_COUNT -> ok([flow EXCEPT !.Bytes = readUint(fieldData)])
       [] type = IPFIX_PACKET_DELTA_COUNT -> ok([flow EXCEPT !.Packets = readUint(fieldData)])
       [] type = IPFIX_TCP_CONTROL_BITS ->
            IF n >= 1 THEN ok([flow EXCEPT !.TCPFlags = fieldData[n]]) ELSE ok(flow)
       [] type = IPFIX_BGP_SOURCE_AS -> ok([flow EXCEPT !.SrcAS = readUint(fieldData)])
       [] type = IPFIX_BGP_DEST_AS -> ok([flow EXCEPT !.DstAS = readUint(fieldData)])
       [] type = IPFIX_INGRESS_INTERFACE ->
            ok([flow EXCEPT !.InputIf = readUint(fieldData) % 65536])
       [] type = IPFIX_EGRESS_INTERFACE ->
            ok([flow EXCEPT !.OutputIf = readUint(fieldData) % 65536])
       [] type = IPFIX_FLOW_START_SYS_UP_TIME ->
            IF n < 4 THEN bad
            ELSE ok([flow EXCEPT !.StartTime = baseTime - U32(fieldData, 0)])
       [] type = IPFIX_FLOW_END_SYS_UP_TIME ->
            IF n < 4 THEN bad
            ELSE ok([flow EXCEPT !.EndTime = baseTime - U32(fieldData, 0)])
       [] type = IPFIX_FLOW_START_MILLISEC ->
            IF n < 8 THEN bad ELSE ok([flow EXCEPT !.StartTime = U64(fieldData, 0)])
       [] type = IPFIX_FLOW_END_MILLISEC ->
            IF n < 8 THEN bad ELSE ok([flow EXCEPT !.EndTime = U64(fieldData, 0)])
       [] OTHER -> ok(flow)

RECURSIVE parseIPFIXRecordFields(_, _, _, _, _, _)
parseIPFIXRecordFields(record, defs, i, offset, flow, baseTime) ==
  IF i > Len(defs) THEN [panic |-> FALSE, nil |-> FALSE, flow |-> flow]
  ELSE IF offset + defs[i].Length > Len(record)
       THEN [panic |-> FALSE, nil |-> TRUE, flow |-> flow]
       ELSE LET r == IPFIXField(flow, defs[i].Type,
                                Slice(record, offset, offset + defs[i].Length), baseTime)
            IN IF r.panic THEN [panic |-> TRUE, nil |-> FALSE, flow |-> flow]
               ELSE parseIPFIXRecordFields(record, defs, i + 1,
                                           offset + defs[i].Length, r.flow, baseTime)

parseIPFIXRecord(record, template, sourceAddr, baseTime, t) ==
  parseIPFIXRecordFields(record, template.FieldDefs, 1, 0,
                         [ZeroFlow EXCEPT !.Version = IPFIX, !.ExporterIP = sourceAddr,
                                          !.ReceivedAt = t],
                         baseTime)

RECURSIVE parseIPFIXRecords(_, _, _, _, _, _, _)
parseIPFIXRecords(data, offset, template, sourceAddr, baseTime, t, acc) ==
  IF offset + template.Length > Len(data) THEN [panic |-> FALSE, flows |-> acc]
  ELSE LET r == parseIPFIXRecord(Slice(data, offset, offset + template.Length),
                                 template, sourceAddr, baseTime, t)
       IN IF r.panic THEN [panic |-> TRUE, flows |-> acc]
          ELSE parseIPFIXRecords(data, offset + template.Length, template, sourceAddr,
                                 baseTime, t, IF r.nil THEN acc ELSE Append(acc, r.flow))

parseIPFIXDataSet(data, template, sourceAddr, baseTime, t) ==
  IF template.Length = 0 THEN [panic |-> FALSE, flows |-> <<>>]
  ELSE parseIPFIXRecords(data, 0, template, sourceAddr, baseTime, t, <<>>)

\* the set loop of parseIPFIX from offset on, bounded by the header's length
RECURSIVE IPFIXSets(_, _, _, _, _, _, _, _)
IPFIXSets(data, length, offset, tmpl, flows, sourceAddr, baseTime, t) ==
  LET done == [panic |-> FALSE, flows |-> flows, tmpl |-> tmpl]
  IN IF ~(offset + ipfixSetHeaderSize <= length) THEN done
     ELSE LET setID == U16(data, offset)
              setLen == U16(data, offset + 2)
          IN IF setLen < 4 \/ offset + setLen > length THEN done
             ELSE LET setData == Slice(data, offset + 4, offset + setLen)
                      next(tm, fl) == IPFIXSets(data, length, offset + setLen, tm, fl,
                                                sourceAddr, baseTime, t)
                  IN CASE setID = 2 -> next(parseIPFIXTemplates(setData, 0, tmpl), flows)
                       [] setID >= 256 /\ setID \in DOMAIN tmpl ->
                            LET r == parseIPFIXDataSet(setData, tmpl[setID], sourceAddr,
                                                       baseTime, t)
                            IN IF r.panic
                               THEN [panic |-> TRUE, flows |-> flows, tmpl |-> tmpl]
                               ELSE next(tmpl, flows \o r.flows)
                       [] OTHER -> next(tmpl, flows)

\* parseIPFIX with the template map of the observation domain created before
\* the header's length is checked
parseIPFIXMapFirst(data, sourceAddr, ipfixT, t) ==
  IF Len(data) < ipfixHeaderSize
  THEN [flows |-> <<>>, err |-> TRUE, panic |-> FALSE, templates |-> ipfixT]
  ELSE LET length == U16(data, 2)
           exportTime == U32(data, 4)
           observationDomainID == U32(data, 12)
           baseTime == exportTime * 1000
           tmpl == IF observationDomainID \in DOMAIN ipfixT
                   THEN ipfixT[observationDomainID] ELSE EmptyMap
           r == IPFIXSets(data, length, ipfixHeaderSize, tmpl, <<>>, sourceAddr,
                          baseTime, t)
       IN IF length > Len(data)
          THEN [flows |-> <<>>, err |-> TRUE, panic |-> FALSE,
                templates |-> MapPut(ipfixT, observationDomainID, tmpl)]
          ELSE [flows |-> IF r.panic THEN <<>> ELSE r.flows, err |-> FALSE,
                panic |-> r.panic,
                templates |-> MapPut(ipfixT, observationDomainID, r.tmpl)]

parseIPFIX(data, sourceAddr, ipfixT, t) ==
  IF Len(data) < ipfixHeaderSize
  THEN [flows |-> <<>>, err |-> TRUE, panic |-> FALSE, templates |-> ipfixT]
  ELSE LET length == U16(data, 2)
           exportTime == U32(data, 4)
           observationDomainID == U32(data, 12)
           baseTime == exportTime * 1000
           tmpl == IF observationDomainID \in DOMAIN ipfixT
                   THEN ipfixT[observationDomainID] ELSE EmptyMap
           r == IPFIXSets(data, length, ipfixHeaderSize, tmpl, <<>>, sourceAddr,
                          baseTime, t)
       IN IF length > Len(data)
          THEN [flows |-> <<>>, err |-> TRUE, panic |-> FALSE, templates |-> ipfixT]
          ELSE [flows |-> IF r.panic THEN <<>> ELSE r.flows, err |-> FALSE,
                panic |-> r.panic,
                templates |-> MapPut(ipfixT, observationDomainID, r.tmpl)]

\* the i-th and later records of a v5 datagram; times are in milliseconds
\* a decoder that takes the counters from the low 16 bits of their fields
V5FlowShortCounters(record, sourceAddr, bootTime, t) ==
  [Version |-> NetFlowV5,
   SrcAddr |-> Slice(record, 0, 4),
   DstAddr |-> Slice(record, 4, 8),
   SrcPort |-> U16(record, 32),
   DstPort |-> U16(record, 34),
   Protocol |-> record[39],
   Packets |-> U16(record, 18),
   Bytes |-> U16(record, 22),
   StartTime |-> bootTime + U32(record, 24),
   EndTime |-> bootTime + U32(record, 28),
   TCPFlags |-> record[38],
   SrcAS |-> U16(record, 40),
   DstAS |-> U16(record, 42),
   InputIf |-> U16(record, 12),
   OutputIf |-> U16(record, 14),
   ExporterIP |-> sourceAddr,
   ReceivedAt |-> t,
   LastAccessed |-> 0]

\* the flow parseNetFlowV5 makes of one 48-byte record
V5Flow(record, sourceAddr, bootTime, t) ==
  [Version |-> NetFlowV5,
   SrcAddr |-> Slice(record, 0, 4),
   DstAddr |-> Slice(record, 4, 8),
   SrcPort |-> U16(record, 32),
   DstPort |-> U16(record, 34),
   Protocol |-> record[39],
   Packets |-> U32(record, 16),
   Bytes |-> U32(record, 20),
   StartTime |-> bootTime + U32(record, 24),
   EndTime |-> bootTime + U32(record, 28),
   TCPFlags |-> record[38],
   SrcAS |-> U16(record, 40),
   DstAS |-> U16(record, 42),
   InputIf |-> U16(record, 12),
   OutputIf |-> U16(record, 14),
   ExporterIP |-> sourceAddr,
   ReceivedAt |-> t,
   LastAccessed |-> 0]

RECURSIVE V5Records(_, _, _, _, _, _)
V5Records(data, i, count, sourceAddr, bootTime, t) ==
  IF i >= count THEN <<>>
  ELSE LET offset == netflowV5HeaderSize + i * netflowV5RecordSize
           record == Slice(data, offset, offset + netflowV5RecordSize)
       IN <<V5Flow(record, sourceAddr, bootTime, t)>> \o
          V5Records(data, i + 1, count, sourceAddr, bootTime, t)

\* parseNetFlowV5 decoding the records that fit when the datagram is shorter
\* than its header declares
parseNetFlowV5Lenient(data, sourceAddr, t) ==
  IF Len(data) < netflowV5HeaderSize THEN [flows |-> <<>>, err |-> TRUE]
  ELSE LET count == U16(data, 2)
           sysUptime == U32(data, 4)
           unixSecs == U32(data, 8)
           unixNsecs == U32(data, 12)
           bootTime == unixSecs * 1000 + unixNsecs \div 1000000 - sysUptime
           fit == (Len(data) - netflowV5HeaderSize) \div netflowV5RecordSize
       IN [flows |-> V5Records(data, 0, IF fit < count THEN fit ELSE count, sourceAddr,
                               bootTime, t),
           err |-> FALSE]

parseNetFlowV5(data, sourceAddr, t) ==
  IF Len(data) < netflowV5HeaderSize THEN [flows |-> <<>>, err |-> TRUE]
  ELSE LET count == U16(data, 2)
           sysUptime == U32(data, 4)
           unixSecs == U32(data, 8)
           unixNsecs == U32(data, 12)
           bootTime == unixSecs * 1000 + unixNsecs \div 1000000 - sysUptime
       IN IF Len(data) < netflowV5HeaderSize + count * netflowV5RecordSize
          THEN [flows |-> <<>>, err |-> TRUE]
          ELSE [flows |-> V5Records(data, 0, count, sourceAddr, bootTime, t),
                err |-> FALSE]

\* Parser.Parse on the caches p = [v9Templates, ipfixTemplates]
Parse(data, sourceAddr, p, t) ==
  LET fail == [flows |-> <<>>, err |-> TRUE, panic |-> FALSE, parser |-> p]
  IN IF Len(data) < 2 THEN fail
     ELSE LET version == U16(data, 0)
          IN CASE version = 5 ->
                    LET r == parseNetFlowV5(data, sourceAddr, t)
                    IN [flows |-> r.flows, err |-> r.err, panic |-> FALSE, parser |-> p]
               [] version = 9 ->
                    LET r == parseNetFlowV9(data, sourceAddr, p.v9Templates, t)
                    IN [flows |-> r.flows, err |-> r.err, panic |-> r.panic,
                        parser |-> [p EXCEPT !.v9Templates = r.templates]]
               [] version = 10 ->
                    LET r == parseIPFIX(data, sourceAddr, p.ipfixTemplates, t)
                    IN [flows |-> r.flows, err |-> r.err, panic |-> r.panic,
                        parser |-> [p EXCEPT !.ipfixTemplates = r.templates]]
               [] OTHER -> fail


VARIABLES
  flows,            \* FlowStore.flows
  maxFlows,         \* FlowStore.maxFlows
  stats,            \* FlowStore.stats
  exporters,        \* FlowStore.exporters (the keys of the map)
  lastStatsUpdate,  \* FlowStore.lastStatsUpdate
  flowsInWindow,    \* FlowStore.flowsInWindow
  bytesInWindow,    \* FlowStore.bytesInWindow
  evictionConfig,   \* FlowStore.evictionConfig
  evictionStats,    \* FlowStore.evictionStats
  now               \* the wall clock read by time.Now()

\* the parser's template caches, whether a decoder panic ended the process,
\* and two histories: the record length each
\* (version, template id) was last announced with, and the exporter whose
\* datagram last defined each (version, source id, template id); and how the
\* last Parse of the ingest goroutine ended: "none", "ok", "error" or "panic"
VARIABLES parser, crashed, announced, installedBy, ingestResult

VARIABLES
  packets,      \* UDPListener.packets: the datagrams buffered in the channel
  stopChan,     \* UDPListener.stopChan: "open" or "closed"
  conn,         \* UDPListener.conn: "open" or "closed"
  readPc,       \* where readLoop stands: "select", "read", "errselect", "send", "done"
  readPkt,      \* the datagram readLoop has read and not yet offered to the channel
  ingestPc,     \* the ingest goroutine of runCollector: "range" or "exited"
  mainPc,       \* runCollector: "running", "stopped" (Stop returned) or "returned"
  received,     \* the number of datagrams ReadFromUDP has returned so far
  accepted,     \* history: the datagrams the channel took, in that order
  dropped,      \* history: the datagrams dropped because the channel was full
  delivered     \* history: the datagrams the ingest goroutine got, in that order

VARIABLES
  mu,           \* FlowStore.mu: whether a writer holds it, and how many readers do
  addPc,        \* the Add in progress: "idle" or "loop"
  addBatch,     \* the batch of the Add in progress
  addI,         \* the next record of the batch the loop of Add will take
  committed,    \* history: the Stats as the last completed Add left them
  rdPc,         \* the reader: "idle", "stats", "statsRet", "query", "queryRet"
  rdArgs,       \* the arguments of the Query in progress
  rdI,          \* the next index Query will read
  rdLen,        \* len(fs.flows) as Query found it
  filtered,     \* Query's local slice
  rdSnaps,      \* history: the store content at the instants of the running Query
  statsRet,     \* what GetStats returned
  statsAt,      \* history: committed at the instant GetStats read fs.stats
  queryRet      \* what Query returned

VARIABLES
  cfgPc,        \* SetEvictionConfig: "idle", "locked" (Lock returned) or "half"
                \* (the first word of fs.evictionConfig is written)
  cfgArg,       \* its argument
  getPc,        \* GetEvictionConfig: "idle", "half" (the first word is read) or "ret"
  getRet,       \* what it has read so far, and what it returned
  held          \* history: the configurations the store held, outside of a
                \* write, at the instants of the running GetEvictionConfig

VARIABLES
  hfPc,         \* HandleFlows: "idle", "count" (Query returned) or "filtered"
                \* (GetFlowCount returned)
  hfFlows,      \* its local flows
  hfTotal       \* its local total

VARIABLES
  request,      \* the HTTP request the API handler last served
  response,     \* what the handler wrote to the ResponseWriter
  matched,      \* the filter text last parsed and what it said of a flow
  queried,      \* what the display last got from Query and QueryAggregatedFlows
  roundTrip,    \* history: the records an exporter last put into a NetFlow v5
                \* datagram, and what Parse returned for the datagram
  passed        \* history: the flows passed to Add so far, where the callers
                \* of Add are followed

storeVars == <<flows, maxFlows, stats, exporters, lastStatsUpdate, flowsInWindow,
               bytesInWindow, evictionConfig, evictionStats, now>>

parserVars == <<parser, crashed, announced, installedBy, ingestResult>>
hfVars == <<hfPc, hfFlows, hfTotal>>
cfgVars == <<cfgPc, cfgArg, getPc, getRet, held, hfVars>>
concVars == <<mu, addPc, addBatch, addI, committed, rdPc, rdArgs, rdI, rdLen, filtered,
              rdSnaps, statsRet, statsAt, queryRet, cfgVars>>
pipeVars == <<packets, stopChan, conn, readPc, readPkt, ingestPc, mainPc, received,
              accepted, dropped, delivered>>
apiVars == <<request, response, matched, queried, roundTrip, passed>>
otherVars == <<parserVars, pipeVars, concVars, apiVars>>
vars == <<storeVars, parserVars, pipeVars, concVars, apiVars>>

(***************************************************************************)
(* Helpers.                                                                *)
(***************************************************************************)
Min(a, b) == IF a < b THEN a ELSE b

\* Go's float-to-int conversion truncates toward zero
TruncDiv(a, b) == IF a >= 0 THEN a \div b ELSE -((-a) \div b)

\* the subsequence of s at the indices not in rm, order kept
RECURSIVE Without(_, _, _)
Without(s, rm, i) ==
  IF i > Len(s) THEN <<>>
  ELSE IF i \in rm THEN Without(s, rm, i + 1)
  ELSE <<s[i]>> \o Without(s, rm, i + 1)

ZeroStats ==
  [TotalFlows |-> 0, TotalBytes |-> 0, TotalPackets |-> 0, FlowsPerSecond |-> 0,
   BytesPerSecond |-> 0, V5Flows |-> 0, V9Flows |-> 0, IPFIXFlows |-> 0,
   UniqueExporters |-> 0]

ZeroEvictionStats ==
  [TotalEvicted |-> 0, FIFOEvicted |-> 0, TopKProtected |-> 0, LRUProtected |-> 0]

\* the configurations the collector is started with (--max-flows,
\* --topk-percent, --lru-window); the window is in clock ticks
StoreConfigs ==
  { [maxFlows |-> StoreCap, TopKPercent |-> p, LRUWindow |-> 1] : p \in {50, 100, 200} }

\* a larger store that protects two thirds of its capacity
ElephantConfigs ==
  { [maxFlows |-> StoreCap + 2, TopKPercent |-> 67, LRUWindow |-> 1] }

(***************************************************************************)
(* FlowStore.evictFlows                                                    *)
(***************************************************************************)
\* topKCount := int(float64(maxFlows) * TopKPercent / 100.0), clamped at 0
TopKCount(mf, cfg) ==
  LET raw == TruncDiv(mf * cfg.TopKPercent, 100)
  IN IF raw < 0 THEN 0 ELSE raw

\* byteCounts sorted descending, element topKCount-1
KthLargest(fl, k) ==
  CHOOSE v \in { fl[i].Bytes : i \in 1..Len(fl) } :
    /\ Cardinality({ i \in 1..Len(fl) : fl[i].Bytes > v }) < k
    /\ Cardinality({ i \in 1..Len(fl) : fl[i].Bytes >= v }) >= k

TopKThreshold(fl, k) ==
  IF k > 0 /\ k < Len(fl) THEN KthLargest(fl, k) ELSE 0

\* Step 2 with every flow at or above the threshold protected (no count cap)
RECURSIVE ClassifyNoCap(_, _, _, _, _, _, _)
ClassifyNoCap(fl, i, thr, k, t, win, acc) ==
  IF i > Len(fl) THEN acc
  ELSE IF thr > 0 /\ fl[i].Bytes >= thr
    THEN ClassifyNoCap(fl, i + 1, thr, k, t, win, [acc EXCEPT !.topk = @ \cup {i}])
  ELSE IF fl[i].LastAccessed # 0 /\ t - fl[i].LastAccessed < win
    THEN ClassifyNoCap(fl, i + 1, thr, k, t, win, [acc EXCEPT !.lru = @ \cup {i}])
  ELSE ClassifyNoCap(fl, i + 1, thr, k, t, win, acc)

\* Step 2 without the LRU check
RECURSIVE ClassifyNoLRU(_, _, _, _, _, _, _)
ClassifyNoLRU(fl, i, thr, k, t, win, acc) ==
  IF i > Len(fl) THEN acc
  ELSE IF thr > 0 /\ fl[i].Bytes >= thr /\ Cardinality(acc.topk) < k
    THEN ClassifyNoLRU(fl, i + 1, thr, k, t, win, [acc EXCEPT !.topk = @ \cup {i}])
  ELSE ClassifyNoLRU(fl, i + 1, thr, k, t, win, acc)

\* Step 2: classify flows, in insertion order, as "topk", "lru" or unprotected
RECURSIVE Classify(_, _, _, _, _, _, _)
Classify(fl, i, thr, k, t, win, acc) ==
  IF i > Len(fl) THEN acc
  ELSE IF thr > 0 /\ fl[i].Bytes >= thr /\ Cardinality(acc.topk) < k
    THEN Classify(fl, i + 1, thr, k, t, win, [acc EXCEPT !.topk = @ \cup {i}])
  ELSE IF fl[i].LastAccessed # 0 /\ t - fl[i].LastAccessed < win
    THEN Classify(fl, i + 1, thr, k, t, win, [acc EXCEPT !.lru = @ \cup {i}])
  ELSE Classify(fl, i + 1, thr, k, t, win, acc)

\* the last n evictable indices, newest first
LifoVictims(evictable, n) ==
  { i \in evictable : Cardinality({ j \in evictable : j > i }) < n }

\* Steps 3 and 4: the first n evictable indices, oldest first
FifoVictims(evictable, n) ==
  { i \in evictable : Cardinality({ j \in evictable : j < i }) < n }

\* a relaxation that takes its n victims from all flows of the pass
AnyVictimSets(fl, lru, n) ==
  { R \in SUBSET (1..Len(fl)) : Cardinality(R) = Min(n, Len(fl)) }

\* a faulty variant of LruVictimSets: the pass never takes from the LRU pool
NoLruVictims(fl, lru, n) == {{}}

\* the LRU pool sorted by LastAccessed, first n entries; sort.Slice is not
\* stable, so entries with equal LastAccessed come in any order
LruVictimSets(fl, lru, n) ==
  { R \in SUBSET lru :
      /\ Cardinality(R) = Min(n, Cardinality(lru))
      /\ \A r \in R : \A s \in lru \ R : fl[r].LastAccessed <= fl[s].LastAccessed }

\* a faulty variant of Removed: the number of flows the pass set out to remove
RemovedAsPlanned(victims, toEvict) == toEvict

\* removed, the count the pass adds to TotalEvicted and FIFOEvicted: one for
\* each index it put into toRemove
Removed(victims, toEvict) == Cardinality(victims)

\* the outcomes of one pass over fl, of which the first `stored` flows were in
\* the store before the Add: the new slice, the counters, and a record of what
\* the pass did (pass)
evictFlows(fl, stored, mf, cfg, es, t) ==
  LET toEvict == Len(fl) - mf
      k == TopKCount(mf, cfg)
      thr == TopKThreshold(fl, k)
      cls == Classify(fl, 1, thr, k, t, cfg.LRUWindow, [topk |-> {}, lru |-> {}])
      evictable == (1..Len(fl)) \ (cls.topk \cup cls.lru)
      fifo == FifoVictims(evictable, toEvict)
      need == toEvict - Cardinality(fifo)
  IN IF toEvict <= 0
     THEN { [flows |-> fl, evictionStats |-> es,
             pass |-> [pre |-> fl, stored |-> stored, at |-> t, toEvict |-> 0,
                       topk |-> {}, lru |-> {}, removed |-> {}]] }
     ELSE { [flows |-> Without(fl, fifo \cup R, 1),
             evictionStats |->
               [TotalEvicted |-> es.TotalEvicted + Removed(fifo \cup R, toEvict),
                FIFOEvicted |-> es.FIFOEvicted + Removed(fifo \cup R, toEvict),
                TopKProtected |-> Cardinality(cls.topk),
                LRUProtected |-> Cardinality(cls.lru) - Cardinality(R)],
             pass |-> [pre |-> fl, stored |-> stored, at |-> t, toEvict |-> toEvict,
                       topk |-> cls.topk, lru |-> cls.lru, removed |-> fifo \cup R]]
           : R \in LruVictimSets(fl, cls.lru, IF need > 0 THEN need ELSE 0) }

(***************************************************************************)
(* FlowStore.Add                                                           *)
(***************************************************************************)
\* one iteration of the loop over the batch: the counters
AddOneStats(st, f) ==
  [st EXCEPT !.TotalFlows = @ + 1,
             !.TotalBytes = @ + f.Bytes,
             !.TotalPackets = @ + f.Packets,
             !.V5Flows = IF f.Version = NetFlowV5 THEN @ + 1 ELSE @,
             !.V9Flows = IF f.Version = NetFlowV9 THEN @ + 1 ELSE @,
             !.IPFIXFlows = IF f.Version = IPFIX THEN @ + 1 ELSE @]

RECURSIVE AddAllStats(_, _, _)
AddAllStats(st, batch, i) ==
  IF i > Len(batch) THEN st ELSE AddAllStats(AddOneStats(st, batch[i]), batch, i + 1)

RECURSIVE SumBytes(_, _)
SumBytes(s, i) == IF i > Len(s) THEN 0 ELSE s[i].Bytes + SumBytes(s, i + 1)

\* "Update rates every second": the rates are float64 quotients, kept here
\* as integer quotients
UpdateRates(st, exps, fw, bw, last, t) ==
  LET elapsed == t - last
  IN IF elapsed >= 1
     THEN [stats |-> [st EXCEPT !.FlowsPerSecond = fw \div elapsed,
                                !.BytesPerSecond = bw \div elapsed,
                                !.UniqueExporters = Cardinality(exps)],
           flowsInWindow |-> 0, bytesInWindow |-> 0, lastStatsUpdate |-> t]
     ELSE [stats |-> st, flowsInWindow |-> fw, bytesInWindow |-> bw,
           lastStatsUpdate |-> last]

Add(batch) ==
     IF Len(batch) = 0
     THEN UNCHANGED storeVars
     ELSE LET appended == flows \o batch
              st1 == AddAllStats(stats, batch, 1)
              exps == exporters \cup { batch[i].ExporterIP : i \in
                                          { j \in 1..Len(batch) : batch[j].ExporterIP # <<>> } }
              fw == flowsInWindow + Len(batch)
              bw == bytesInWindow + SumBytes(batch, 1)
          IN \E out \in IF Len(appended) > maxFlows
                        THEN evictFlows(appended, Len(flows), maxFlows, evictionConfig,
                                        evictionStats, now)
                        ELSE { [flows |-> appended, evictionStats |-> evictionStats] } :
               LET r == UpdateRates(st1, exps, fw, bw, lastStatsUpdate, now)
               IN /\ flows' = out.flows
                  /\ evictionStats' = out.evictionStats
                  /\ exporters' = exps
                  /\ stats' = r.stats
                  /\ flowsInWindow' = r.flowsInWindow
                  /\ bytesInWindow' = r.bytesInWindow
                  /\ lastStatsUpdate' = r.lastStatsUpdate
                  /\ UNCHANGED <<maxFlows, evictionConfig, now>>

\* the exporters stop once MaxTotal flows (and as many more as the store is
\* larger than the smallest one) were passed to Add
WithinBudget(batch) == stats.TotalFlows + Len(batch) <= MaxTotal + (maxFlows - StoreCap)

(***************************************************************************)
(* FlowStore.MarkFlowAccessed, MarkFlowsAccessed, Clear                    *)
(***************************************************************************)
\* the first stored record with the key gets LastAccessed = now
MarkFirst(fl, key, t) ==
  LET hits == { i \in 1..Len(fl) : FlowKey(fl[i]) = key }
  IN IF hits = {} THEN fl
     ELSE LET first == CHOOSE i \in hits : \A j \in hits : i <= j
          IN [fl EXCEPT ![first].LastAccessed = t]

MarkFlowAccessed(key) ==
  /\ flows' = MarkFirst(flows, key, now)
  /\ UNCHANGED <<maxFlows, stats, exporters, lastStatsUpdate, flowsInWindow,
                 bytesInWindow, evictionConfig, evictionStats, now>>

\* records whose key is in the set are marked in insertion order until
\* len(flowKeys) records have been marked
MarkMany(fl, keys, n, t) ==
  LET hits == { i \in 1..Len(fl) : FlowKey(fl[i]) \in keys }
      marked == { i \in hits : Cardinality({ j \in hits : j < i }) < n }
  IN [i \in 1..Len(fl) |-> IF i \in marked THEN [fl[i] EXCEPT !.LastAccessed = t]
                           ELSE fl[i]]

MarkFlowsAccessed(keys) ==
  /\ Len(keys) > 0
  /\ flows' = MarkMany(flows, { keys[i] : i \in 1..Len(keys) }, Len(keys), now)
  /\ UNCHANGED <<maxFlows, stats, exporters, lastStatsUpdate, flowsInWindow,
                 bytesInWindow, evictionConfig, evictionStats, now>>

Clear ==
  /\ flows' = <<>>
  /\ UNCHANGED <<maxFlows, stats, exporters, lastStatsUpdate, flowsInWindow,
                 bytesInWindow, evictionConfig, evictionStats, now>>

\* time passes
Tick ==
  /\ now < MaxTime
  /\ now' = now + 1
  /\ UNCHANGED <<flows, maxFlows, stats, exporters, lastStatsUpdate, flowsInWindow,
                 bytesInWindow, evictionConfig, evictionStats>>

(***************************************************************************)
(* The store under sequential use (one call at a time).                    *)
(***************************************************************************)
\* NewWithConfig(maxFlows, evictionConfig)
StoreInitAt(configs, t) ==
  /\ flows = <<>>
  /\ stats = ZeroStats
  /\ exporters = {}
  /\ now = t
  /\ lastStatsUpdate = t
  /\ flowsInWindow = 0
  /\ bytesInWindow = 0
  /\ \E c \in configs :
       /\ maxFlows = c.maxFlows
       /\ evictionConfig = [TopKPercent |-> c.TopKPercent, LRUWindow |-> c.LRUWindow]
  /\ evictionStats = ZeroEvictionStats
StoreInit(configs) == StoreInitAt(configs, 1)

\* ---------------------------------------------------------------------------
\* The store shared by the ingest goroutine, the readers and the display
\* ---------------------------------------------------------------------------

\* a Lock that does not wait for readers, an RLock that does not wait at all
LockIgnoringReaders(m) == ~m.writer
RLockAlways(m) == TRUE

\* sync.RWMutex: Lock waits for the writer and every reader to leave, RLock
\* waits for the writer
LockAvailable(m) == ~m.writer /\ m.readers = 0
RLockAvailable(m) == ~m.writer

SortByTime == 0
SortByBytes == 1
SortByPackets == 2
SortByProtocol == 5

\* ---------------------------------------------------------------------------
\* The filter language: strings are sequences of one-character strings
\* ---------------------------------------------------------------------------

Digits == <<"0", "1", "2", "3", "4", "5", "6", "7", "8", "9">>
UpperCase == <<"A", "B", "C", "D", "E", "F", "G", "H", "I", "J", "K", "L", "M", "N", "O", "P", "Q", "R", "S", "T", "U", "V", "W", "X", "Y", "Z">>
LowerCase == <<"a", "b", "c", "d", "e", "f", "g", "h", "i", "j", "k", "l", "m", "n", "o", "p", "q", "r", "s", "t", "u", "v", "w", "x", "y", "z">>

IsDigit(c) == \E d \in 1..10 : Digits[d] = c
DigitOf(c) == (CHOOSE d \in 1..10 : Digits[d] = c) - 1

\* strings.ToLower, strings.EqualFold
LowerChar(c) ==
  IF \E i \in 1..26 : UpperCase[i] = c
  THEN LowerCase[CHOOSE i \in 1..26 : UpperCase[i] = c] ELSE c
ToLower(s) == [i \in 1..Len(s) |-> LowerChar(s[i])]
EqualFold(a, b) == ToLower(a) = ToLower(b)

\* s[i] and whether sub stands at position i of s (positions count from 0)
At(s, i) == s[i + 1]
HasAt(s, i, sub) == i + Len(sub) <= Len(s) /\ Slice(s, i, i + Len(sub)) = sub

\* strings.Index: the first position of sub in s, or -1
Index(s, sub) ==
  LET hits == { i \in 0..Len(s) : HasAt(s, i, sub) }
  IN IF hits = {} THEN -1 ELSE CHOOSE i \in hits : \A j \in hits : i <= j

\* strings.Contains
Contains(s, sub) == Index(s, sub) >= 0

\* strings.TrimSpace on blanks and tabs
IsBlank(c) == c = " " \/ c = "\t"
RECURSIVE TrimLeft(_)
TrimLeft(s) == IF Len(s) > 0 /\ IsBlank(s[1]) THEN TrimLeft(Tail(s)) ELSE s
RECURSIVE TrimRight(_)
TrimRight(s) ==
  IF Len(s) > 0 /\ IsBlank(s[Len(s)]) THEN TrimRight(SubSeq(s, 1, Len(s) - 1)) ELSE s
TrimSpace(s) == TrimRight(TrimLeft(s))

\* strings.Join of the parts with sep between them
RECURSIVE Join(_, _, _)
Join(parts, sep, i) ==
  IF i > Len(parts) THEN <<>>
  ELSE IF i = Len(parts) THEN parts[i]
  ELSE parts[i] \o sep \o Join(parts, sep, i + 1)

\* fmt's %d of a natural number
RECURSIVE Dec(_)
Dec(n) == IF n < 10 THEN <<Digits[n + 1]>> ELSE Dec(n \div 10) \o <<Digits[(n % 10) + 1]>>

\* a conversion that accepts every string and keeps the digits it finds,
\* reduced to 16 bits
RECURSIVE DigitsMod(_, _, _)
DigitsMod(s, i, acc) ==
  IF i > Len(s) THEN acc
  ELSE DigitsMod(s, i + 1, IF IsDigit(s[i]) THEN (acc * 10 + DigitOf(s[i])) % 65536 ELSE acc)
ParseUintLenient(s) == [ok |-> TRUE, n |-> DigitsMod(s, 1, 0)]

\* strconv.ParseUint(s, 10, 16): the value, or failure for an empty string, a
\* character that is no digit, or a value above 65535
RECURSIVE ParseUintFrom(_, _, _)
ParseUintFrom(s, i, acc) ==
  IF i > Len(s) THEN [ok |-> TRUE, n |-> acc]
  ELSE IF ~IsDigit(s[i]) \/ acc * 10 + DigitOf(s[i]) > 65535 THEN [ok |-> FALSE, n |-> 0]
  ELSE ParseUintFrom(s, i + 1, acc * 10 + DigitOf(s[i]))
ParseUint16(s) == IF Len(s) = 0 THEN [ok |-> FALSE, n |-> 0] ELSE ParseUintFrom(s, 1, 0)

\* the parts of s between the separators sep
RECURSIVE Split(_, _)
Split(s, sep) ==
  LET i == Index(s, <<sep>>)
  IN IF i < 0 THEN <<s>> ELSE <<Slice(s, 0, i)>> \o Split(Slice(s, i + 1, Len(s)), sep)

\* one decimal field of a dotted IPv4 address: one to three digits, no leading
\* zero, at most 255
ParseOctet(s) ==
  LET r == ParseUint16(s)
  IN IF Len(s) \in 1..3 /\ r.ok /\ r.n <= 255 /\ (Len(s) = 1 \/ s[1] # "0")
     THEN r ELSE [ok |-> FALSE, n |-> 0]

\* a *net.IPNet, nil when set is FALSE
NoNetwork == [set |-> FALSE, ip |-> <<0, 0, 0, 0>>, ones |-> 0]

\* 2^n
RECURSIVE Pow2(_)
Pow2(n) == IF n = 0 THEN 1 ELSE 2 * Pow2(n - 1)

\* a 4-byte address as a number, and the number of its first ones bits
IPNum(ip) == ((ip[1] * 256 + ip[2]) * 256 + ip[3]) * 256 + ip[4]
Prefix(ip, ones) == IPNum(ip) \div Pow2(32 - ones)

\* net.ParseCIDR for IPv4 networks "a.b.c.d/n"
ParseCIDR(s) ==
  LET i == Index(s, <<"/">>)
      parts == Split(Slice(s, 0, i), ".")
      mask == ParseUint16(Slice(s, i + 1, Len(s)))
  IN IF i < 0 \/ Len(parts) # 4 \/ \E k \in 1..4 : ~ParseOctet(parts[k]).ok
        \/ ~mask.ok \/ mask.n > 32
     THEN [err |-> TRUE, network |-> NoNetwork]
     ELSE [err |-> FALSE,
           network |-> [set |-> TRUE, ip |-> [k \in 1..4 |-> ParseOctet(parts[k]).n],
                        ones |-> mask.n]]

\* net.IPNet.Contains for an IPv4 network: a nil or non-IPv4 address is
\* not contained
NetContains(network, ip) ==
  Len(ip) = 4 /\ Prefix(ip, network.ones) = Prefix(network.ip, network.ones)

\* net.IP.String
IPString(ip) ==
  CASE Len(ip) = 0 -> <<"<", "n", "i", "l", ">">>
    [] Len(ip) = 4 -> Dec(ip[1]) \o <<".">> \o Dec(ip[2]) \o <<".">> \o Dec(ip[3]) \o
                      <<".">> \o Dec(ip[4])

\* Flow.ProtocolName
ProtocolName(flow) ==
  CASE flow.Protocol = 1 -> <<"I", "C", "M", "P">>
    [] flow.Protocol = 6 -> <<"T", "C", "P">>
    [] flow.Protocol = 17 -> <<"U", "D", "P">>
    [] flow.Protocol = 47 -> <<"G", "R", "E">>
    [] flow.Protocol = 50 -> <<"E", "S", "P">>
    [] flow.Protocol = 51 -> <<"A", "H">>
    [] flow.Protocol = 58 -> <<"I", "C", "M", "P", "v", "6">>
    [] flow.Protocol = 89 -> <<"O", "S", "P", "F">>
    [] flow.Protocol = 132 -> <<"S", "C", "T", "P">>
    [] OTHER -> Dec(flow.Protocol)

\* excerpts of the resolver's service tables
commonServices == [p \in {22, 53, 80, 443} |->
                     CASE p = 22 -> <<"s", "s", "h">>
                       [] p = 53 -> <<"d", "n", "s">>
                       [] p = 80 -> <<"h", "t", "t", "p">>
                       [] p = 443 -> <<"h", "t", "t", "p", "s">>]
tcpServices == [p \in {1} |-> <<"t", "c", "p", "m", "u", "x">>]
udpServices == [p \in {443} |-> <<"q", "u", "i", "c">>]

\* resolver.GetServiceName, resolver.IsKnownService
GetServiceName(port, protocol) ==
  IF port = 0 THEN <<>>
  ELSE IF protocol = 6 /\ port \in DOMAIN tcpServices THEN tcpServices[port]
  ELSE IF protocol = 17 /\ port \in DOMAIN udpServices THEN udpServices[port]
  ELSE IF port \in DOMAIN commonServices THEN commonServices[port]
  ELSE <<>>
IsKnownService(name) ==
  \/ \E p \in DOMAIN commonServices : commonServices[p] = name
  \/ \E p \in DOMAIN tcpServices : tcpServices[p] = name
  \/ \E p \in DOMAIN udpServices : udpServices[p] = name

\* ValidFields: the field names, as written and as the model names them
FieldChars ==
  << <<"s", "r", "c">>,
     <<"s", "i", "p">>,
     <<"s", "r", "c", "i", "p">>,
     <<"d", "s", "t">>,
     <<"d", "i", "p">>,
     <<"d", "s", "t", "i", "p">>,
     <<"i", "p">>,
     <<"s", "p", "o", "r", "t">>,
     <<"s", "r", "c", "p", "o", "r", "t">>,
     <<"d", "p", "o", "r", "t">>,
     <<"d", "s", "t", "p", "o", "r", "t">>,
     <<"p", "o", "r", "t">>,
     <<"p", "r", "o", "t", "o">>,
     <<"p", "r", "o", "t", "o", "c", "o", "l">>,
     <<"s", "e", "r", "v", "i", "c", "e">>,
     <<"s", "v", "c">>,
     <<"i", "f">>,
     <<"i", "n", "i", "f">>,
     <<"o", "u", "t", "i", "f">>,
     <<"s", "e", "l", "f">>,
     <<"l", "o", "c", "a", "l">>,
     <<"v", "e", "r", "s", "i", "o", "n">>,
     <<"i", "p", "v", "e", "r", "s", "i", "o", "n">> >>
FieldNames ==
  << "src", "sip", "srcip", "dst", "dip", "dstip", "ip", "sport", "srcport", "dport", "dstport", "port", "proto", "protocol", "service", "svc", "if", "inif", "outif", "self", "local", "version", "ipversion" >>
ValidFields(key) == \E i \in 1..Len(FieldChars) : FieldChars[i] = key
FieldOf(key) == FieldNames[CHOOSE i \in 1..Len(FieldChars) : FieldChars[i] = key]

knownProtocols ==
  { <<"t", "c", "p">>,
    <<"u", "d", "p">>,
    <<"i", "c", "m", "p">>,
    <<"g", "r", "e">>,
    <<"e", "s", "p">>,
    <<"a", "h">>,
    <<"i", "c", "m", "p", "v", "6">>,
    <<"s", "c", "t", "p">> }

\* a *ConditionNode
NoCond ==
  [Field |-> "nil", Value |-> <<>>, Port |-> 0, Interface |-> 0, Network |-> NoNetwork,
   Negated |-> FALSE]

\* the nodes of the expression tree: a nil ExprNode, *ConditionNode, *AndNode,
\* *OrNode, and *NotNode (its child is the one element of children)
NilRoot == [kind |-> "nil", cond |-> NoCond, children |-> <<>>]
\* a negation that binds to the first member of a group only
NotNodeOfFirst(child) ==
  IF child.kind \in {"and", "or"}
  THEN [child EXCEPT !.children[1] = [kind |-> "not", cond |-> NoCond, children |-> <<@>>]]
  ELSE [kind |-> "not", cond |-> NoCond, children |-> <<child>>]
CondNode(c) == [kind |-> "cond", cond |-> c, children |-> <<>>]
AndNode(children) == [kind |-> "and", cond |-> NoCond, children |-> children]
OrNode(children) == [kind |-> "or", cond |-> NoCond, children |-> children]
NotNode(child) == [kind |-> "not", cond |-> NoCond, children |-> <<child>>]

\* ConditionNode.Evaluate
Evaluate(c, flow) ==
  LET srcIP == IPString(flow.SrcAddr)
      dstIP == IPString(flow.DstAddr)
      srcSvc == GetServiceName(flow.SrcPort, flow.Protocol)
      dstSvc == GetServiceName(flow.DstPort, flow.Protocol)
      result ==
        CASE c.Field \in {"src", "sip", "srcip"} ->
               IF c.Network.set THEN NetContains(c.Network, flow.SrcAddr)
               ELSE Contains(srcIP, c.Value)
          [] c.Field \in {"dst", "dip", "dstip"} ->
               IF c.Network.set THEN NetContains(c.Network, flow.DstAddr)
               ELSE Contains(dstIP, c.Value)
          [] c.Field = "ip" ->
               IF c.Network.set
               THEN NetContains(c.Network, flow.SrcAddr) \/ NetContains(c.Network, flow.DstAddr)
               ELSE Contains(srcIP, c.Value) \/ Contains(dstIP, c.Value)
          [] c.Field \in {"sport", "srcport"} -> flow.SrcPort = c.Port
          [] c.Field \in {"dport", "dstport"} -> flow.DstPort = c.Port
          [] c.Field = "port" -> flow.SrcPort = c.Port \/ flow.DstPort = c.Port
          [] c.Field \in {"proto", "protocol"} -> EqualFold(ProtocolName(flow), c.Value)
          [] c.Field \in {"service", "svc"} ->
               IF srcSvc = <<>> /\ dstSvc = <<>>
               THEN EqualFold(ProtocolName(flow), c.Value)
               ELSE EqualFold(srcSvc, c.Value) \/ EqualFold(dstSvc, c.Value)
          [] c.Field = "if" -> flow.InputIf = c.Interface \/ flow.OutputIf = c.Interface
          [] c.Field = "inif" -> flow.InputIf = c.Interface
          [] c.Field = "outif" -> flow.OutputIf = c.Interface
          [] c.Field \in {"self", "local"} -> srcIP = dstIP
          [] c.Field \in {"version", "ipversion"} ->
               IF c.Value \in {<<"4">>, <<"v", "4">>, <<"i", "p", "v", "4">>}
               THEN Len(flow.SrcAddr) = 4
               ELSE IF c.Value \in {<<"6">>, <<"v", "6">>, <<"i", "p", "v", "6">>}
               THEN Len(flow.SrcAddr) # 4
               ELSE TRUE
          [] OTHER -> TRUE
  IN IF c.Negated THEN ~result ELSE result

\* ExprNode.Evaluate of AndNode, OrNode, NotNode and ConditionNode
RECURSIVE EvaluateNode(_, _)
EvaluateNode(node, flow) ==
  CASE node.kind = "cond" -> Evaluate(node.cond, flow)
    [] node.kind = "and" ->
         \A i \in 1..Len(node.children) : EvaluateNode(node.children[i], flow)
    [] node.kind = "or" ->
         \E i \in 1..Len(node.children) : EvaluateNode(node.children[i], flow)
    [] node.kind = "not" -> ~EvaluateNode(node.children[1], flow)

\* a Filter; the empty filter
NilFilter == [Root |-> NilRoot, Raw |-> <<>>, Error |-> <<>>]
IsEmpty(filter) == filter.Root.kind = "nil"
\* a validity check that lets every filter pass
IsValidAlways(filter) == TRUE
IsValid(filter) == filter.Error = <<>>
Matches(filter, flow) ==
  IF filter.Root.kind = "nil" THEN TRUE ELSE EvaluateNode(filter.Root, flow)

\* the tokens
\* the value of a one-element set; a value computed once is bound as
\* Only({ ... v ... : v \in {value} })
Only(S) == CHOOSE x \in S : TRUE

Token(typ, value) == [typ |-> typ, value |-> value]
TokenEOF == Token("tokenEOF", <<>>)

\* whether the keyword stands at position i, followed by the end of the
\* string, a blank, a tab or an opening parenthesis
KeywordAt(s, i, kw) ==
  /\ i + Len(kw) <= Len(s)
  /\ EqualFold(Slice(s, i, i + Len(kw)), kw)
  /\ (i + Len(kw) >= Len(s) \/ At(s, i + Len(kw)) \in {" ", "\t", "("})

\* the end of the condition that starts at position i
RECURSIVE CondEnd(_, _)
CondEnd(s, i) ==
  IF i >= Len(s) THEN i
  ELSE IF At(s, i) \in {" ", "\t", "(", ")", ","} THEN i
  ELSE IF HasAt(s, i, <<"&", "&">>) \/ HasAt(s, i, <<"|", "|">>) THEN i
  ELSE CondEnd(s, i + 1)

RECURSIVE SkipBlanks(_, _)
SkipBlanks(s, i) == IF i < Len(s) /\ IsBlank(At(s, i)) THEN SkipBlanks(s, i + 1) ELSE i

\* the loop of tokenize from position i0 on
RECURSIVE tokenizeFrom(_, _, _)
tokenizeFrom(s, i0, tokens) ==
  Only({
     IF i >= Len(s) THEN tokens
     ELSE IF HasAt(s, i, <<"&", "&">>)
       THEN tokenizeFrom(s, i + 2, Append(tokens, Token("tokenAnd", <<"&", "&">>)))
     ELSE IF HasAt(s, i, <<"|", "|">>)
       THEN tokenizeFrom(s, i + 2, Append(tokens, Token("tokenOr", <<"|", "|">>)))
     ELSE IF At(s, i) = "!"
       THEN tokenizeFrom(s, i + 1, Append(tokens, Token("tokenNot", <<"!">>)))
     ELSE IF At(s, i) = "("
       THEN tokenizeFrom(s, i + 1, Append(tokens, Token("tokenLParen", <<"(">>)))
     ELSE IF At(s, i) = ")"
       THEN tokenizeFrom(s, i + 1, Append(tokens, Token("tokenRParen", <<")">>)))
     ELSE IF KeywordAt(s, i, <<"n", "o", "t">>)
       THEN tokenizeFrom(s, i + 3, Append(tokens, Token("tokenNot", <<"n", "o", "t">>)))
     ELSE IF KeywordAt(s, i, <<"a", "n", "d">>)
       THEN tokenizeFrom(s, i + 3, Append(tokens, Token("tokenAnd", <<"a", "n", "d">>)))
     ELSE IF KeywordAt(s, i, <<"o", "r">>)
       THEN tokenizeFrom(s, i + 2, Append(tokens, Token("tokenOr", <<"o", "r">>)))
     ELSE IF At(s, i) = ","
       THEN tokenizeFrom(s, i + 1, Append(tokens, Token("tokenAnd", <<",">>)))
     ELSE Only({ tokenizeFrom(s, end, Append(tokens, Token("tokenCondition", Slice(s, i, end)))) :
                   end \in {CondEnd(s, i)} })
     : i \in {SkipBlanks(s, i0)} })

tokenize(s) == Append(tokenizeFrom(TrimSpace(s), 0, <<>>), TokenEOF)

\* parser.current, parser.advance
current(tokens, pos) == IF pos < Len(tokens) THEN tokens[pos + 1] ELSE TokenEOF
advance(tokens, pos) == IF pos < Len(tokens) THEN pos + 1 ELSE pos

\* what a parse function leaves: the node it returns (NilRoot for nil), and
\* the parser's position and errors
Parsed(node, pos, errors) == [node |-> node, pos |-> pos, errors |-> errors]

\* parser.parseCondition: the node, and the errors with the new one appended
parseCondition(s, errors) ==
  LET ne == Index(s, <<"!", "=">>)
      eq == Index(s, <<"=">>)
      idx == IF eq < 0 THEN Index(s, <<":">>) ELSE eq
      lowerS == ToLower(s)
      fail(why) == [node |-> NilRoot, errors |-> Append(errors, s \o why)]
      split ==
        IF ne > 0
        THEN [ok |-> TRUE, key |-> ToLower(Slice(s, 0, ne)),
              value |-> Slice(s, ne + 2, Len(s)), negated |-> TRUE]
        ELSE IF idx <= 0
        THEN IF lowerS \in {<<"s", "e", "l", "f">>, <<"l", "o", "c", "a", "l">>}
             THEN [ok |-> TRUE, key |-> <<"s", "e", "l", "f">>, value |-> <<"t", "r", "u", "e">>,
                   negated |-> FALSE]
             ELSE IF lowerS \in knownProtocols
             THEN [ok |-> TRUE, key |-> <<"p", "r", "o", "t", "o">>, value |-> lowerS,
                   negated |-> FALSE]
             ELSE IF IsKnownService(lowerS)
             THEN [ok |-> TRUE, key |-> <<"s", "e", "r", "v", "i", "c", "e">>, value |-> lowerS,
                   negated |-> FALSE]
             ELSE [ok |-> FALSE, key |-> <<>>, value |-> <<>>, negated |-> FALSE]
        ELSE [ok |-> TRUE, key |-> ToLower(Slice(s, 0, idx)),
              value |-> Slice(s, idx + 1, Len(s)), negated |-> FALSE]
      key == split.key
      value == split.value
      field == FieldOf(key)
      cidr == ParseCIDR(value)
      num == ParseUint16(value)
      isIP == field \in {"src", "sip", "srcip", "dst", "dip", "dstip", "ip"}
      isPort == field \in {"sport", "srcport", "dport", "dstport", "port"}
      isIf == field \in {"if", "inif", "outif"}
  IN IF ~split.ok THEN fail(<<" ", "(", "i", "n", "v", "a", "l", "i", "d", " ", "s", "y", "n", "t", "a", "x", ")">>)
     ELSE IF ~ValidFields(key) THEN fail(<<" ", "(", "u", "n", "k", "n", "o", "w", "n", " ", "f", "i", "e", "l", "d", ")">>)
     ELSE IF value = <<>> THEN fail(<<" ", "(", "e", "m", "p", "t", "y", " ", "v", "a", "l", "u", "e", ")">>)
     ELSE IF isIP /\ Contains(value, <<"/">>) /\ cidr.err
       THEN fail(<<" ", "(", "i", "n", "v", "a", "l", "i", "d", " ", "C", "I", "D", "R", ")">>)
     ELSE IF isPort /\ ~num.ok THEN fail(<<" ", "(", "i", "n", "v", "a", "l", "i", "d", " ", "p", "o", "r", "t", ")">>)
     ELSE IF isIf /\ ~num.ok THEN fail(<<" ", "(", "i", "n", "v", "a", "l", "i", "d", " ", "i", "n", "t", "e", "r", "f", "a", "c", "e", ")">>)
     ELSE IF field \in {"proto", "protocol"} /\ ToLower(value) \notin knownProtocols
       THEN fail(<<" ", "(", "u", "n", "k", "n", "o", "w", "n", " ", "p", "r", "o", "t", "o", "c", "o", "l", ")">>)
     ELSE [node |-> CondNode([Field |-> field, Value |-> value,
                              Port |-> IF isPort THEN num.n ELSE 0,
                              Interface |-> IF isIf THEN num.n ELSE 0,
                              Network |-> IF isIP /\ Contains(value, <<"/">>)
                                          THEN cidr.network ELSE NoNetwork,
                              Negated |-> split.negated]),
           errors |-> errors]

RECURSIVE parseExpr(_, _, _)
RECURSIVE parseOrRest(_, _, _, _)
RECURSIVE parseAndExpr(_, _, _)
RECURSIVE parseAndRest(_, _, _, _)
RECURSIVE parseUnaryExpr(_, _, _)
RECURSIVE parsePrimaryExpr(_, _, _)

\* a NOT that takes everything up to the next OR as its operand
parseUnaryLoose(tokens, pos, errors) ==
  IF current(tokens, pos).typ = "tokenNot"
  THEN Only({ IF child.node.kind = "nil"
         THEN Parsed(NilRoot, child.pos,
                     Append(child.errors, <<"e", "x", "p", "e", "c", "t", "e", "d", " ", "e", "x", "p", "r", "e", "s", "s", "i", "o", "n", " ", "a", "f", "t", "e", "r", " ", "!">>))
         ELSE Parsed(NotNode(child.node), child.pos, child.errors) :
         child \in {parseAndExpr(tokens, advance(tokens, pos), errors)} })
  ELSE parsePrimaryExpr(tokens, pos, errors)

\* parser.parseExpr: the alternatives of an OR
parseExpr(tokens, pos, errors) ==
  Only({ IF left.node.kind = "nil" THEN left
         ELSE Only({ Parsed(IF Len(rest.children) = 1 THEN rest.children[1]
                            ELSE OrNode(rest.children),
                            rest.pos, rest.errors) :
                     rest \in {parseOrRest(tokens, left.pos, left.errors, <<left.node>>)} }) :
         left \in {parseAndExpr(tokens, pos, errors)} })

\* the loop of parseExpr
parseOrRest(tokens, pos, errors, children) ==
  IF current(tokens, pos).typ # "tokenOr"
  THEN [children |-> children, pos |-> pos, errors |-> errors]
  ELSE Only({ IF right.node.kind = "nil"
         THEN [children |-> children, pos |-> right.pos,
               errors |-> Append(right.errors, <<"e", "x", "p", "e", "c", "t", "e", "d", " ", "e", "x", "p", "r", "e", "s", "s", "i", "o", "n", " ", "a", "f", "t", "e", "r", " ", "|", "|">>)]
         ELSE Only({ parseOrRest(tokens, right.pos, right.errors, more) :
                     more \in {Append(children, right.node)} }) :
         right \in {parseAndExpr(tokens, advance(tokens, pos), errors)} })

\* parser.parseAndExpr: the operands of an AND, explicit or implicit
parseAndExpr(tokens, pos, errors) ==
  Only({ IF left.node.kind = "nil" THEN left
         ELSE Only({ Parsed(IF Len(rest.children) = 1 THEN rest.children[1]
                            ELSE AndNode(rest.children),
                            rest.pos, rest.errors) :
                     rest \in {parseAndRest(tokens, left.pos, left.errors, <<left.node>>)} }) :
         left \in {parseUnaryExpr(tokens, pos, errors)} })

\* the loop of parseAndExpr
parseAndRest(tokens, pos, errors, children) ==
  IF current(tokens, pos).typ = "tokenAnd"
  THEN Only({ IF right.node.kind = "nil"
         THEN [children |-> children, pos |-> right.pos,
               errors |-> Append(right.errors, <<"e", "x", "p", "e", "c", "t", "e", "d", " ", "e", "x", "p", "r", "e", "s", "s", "i", "o", "n", " ", "a", "f", "t", "e", "r", " ", "&", "&">>)]
         ELSE Only({ parseAndRest(tokens, right.pos, right.errors, more) :
                     more \in {Append(children, right.node)} }) :
         right \in {parseUnaryExpr(tokens, advance(tokens, pos), errors)} })
  ELSE IF current(tokens, pos).typ \in {"tokenCondition", "tokenLParen", "tokenNot"}
  THEN Only({ IF right.node.kind = "nil"
         THEN [children |-> children, pos |-> right.pos, errors |-> right.errors]
         ELSE Only({ parseAndRest(tokens, right.pos, right.errors, more) :
                     more \in {Append(children, right.node)} }) :
         right \in {parseUnaryExpr(tokens, pos, errors)} })
  ELSE [children |-> children, pos |-> pos, errors |-> errors]

\* parser.parseUnaryExpr
parseUnaryExpr(tokens, pos, errors) ==
  IF current(tokens, pos).typ = "tokenNot"
  THEN Only({ IF child.node.kind = "nil"
         THEN Parsed(NilRoot, child.pos,
                     Append(child.errors, <<"e", "x", "p", "e", "c", "t", "e", "d", " ", "e", "x", "p", "r", "e", "s", "s", "i", "o", "n", " ", "a", "f", "t", "e", "r", " ", "!">>))
         ELSE Parsed(NotNode(child.node), child.pos, child.errors) :
         child \in {parseUnaryExpr(tokens, advance(tokens, pos), errors)} })
  ELSE parsePrimaryExpr(tokens, pos, errors)

\* parser.parsePrimaryExpr
parsePrimaryExpr(tokens, pos, errors) ==
  LET cur == current(tokens, pos)
  IN IF cur.typ = "tokenLParen"
     THEN Only({ IF expr.node.kind = "nil"
            THEN Parsed(NilRoot, expr.pos,
                        Append(expr.errors, <<"e", "x", "p", "e", "c", "t", "e", "d", " ", "e", "x", "p", "r", "e", "s", "s", "i", "o", "n", " ", "a", "f", "t", "e", "r", " ", "(">>))
            ELSE IF current(tokens, expr.pos).typ # "tokenRParen"
            THEN Parsed(expr.node, expr.pos,
                        Append(expr.errors, <<"m", "i", "s", "s", "i", "n", "g", " ", "c", "l", "o", "s", "i", "n", "g", " ", ")">>))
            ELSE Parsed(expr.node, advance(tokens, expr.pos), expr.errors) :
            expr \in {parseExpr(tokens, advance(tokens, pos), errors)} })
     ELSE IF cur.typ = "tokenCondition"
     THEN Only({ Parsed(c.node, advance(tokens, pos), c.errors) :
                 c \in {parseCondition(cur.value, errors)} })
     ELSE Parsed(NilRoot, pos, errors)

\* ParseFilter
ParseFilter(s) ==
  Only({ IF raw = <<>> THEN [Root |-> NilRoot, Raw |-> raw, Error |-> <<>>]
         ELSE Only({
           Only({ IF Len(errors) > 0
                  THEN [Root |-> NilRoot, Raw |-> raw,
                        Error |-> <<"i", "n", "v", "a", "l", "i", "d", ":", " ">> \o Join(errors, <<",", " ">>, 1)]
                  ELSE [Root |-> p.node, Raw |-> raw, Error |-> <<>>] :
                  errors \in {IF current(tokens, p.pos).typ # "tokenEOF"
                              THEN Append(p.errors, <<"u", "n", "e", "x", "p", "e", "c", "t", "e", "d", ":", " ">> \o current(tokens, p.pos).value)
                              ELSE p.errors} }) :
           tokens \in {tokenize(raw)}, p \in {parseExpr(tokenize(raw), 0, <<>>)} }) :
         raw \in {TrimSpace(s)} })

\* a String that prints the conditions and operators without the grouping
RECURSIVE StripParens(_)
StripParens(s) ==
  IF Len(s) = 0 THEN <<>>
  ELSE (IF s[1] \in {"(", ")"} THEN <<>> ELSE <<s[1]>>) \o StripParens(Tail(s))
StringNoParens(filter) == StripParens(filter.Raw)

\* Filter.String
String(filter) == filter.Raw

\* the comparison Query hands to sort.Slice
Less(a, b, sortBy, ascending) ==
  LET less == CASE sortBy = SortByBytes -> a.Bytes < b.Bytes
                [] sortBy = SortByPackets -> a.Packets < b.Packets
                [] sortBy = SortByProtocol -> a.Protocol < b.Protocol
                [] OTHER -> a.ReceivedAt < b.ReceivedAt
  IN IF ascending THEN less ELSE ~less

\* the key the comparison orders by
SortKey(f, sortBy) ==
  CASE sortBy = SortByBytes -> f.Bytes
    [] sortBy = SortByPackets -> f.Packets
    [] sortBy = SortByProtocol -> f.Protocol
    [] OTHER -> f.ReceivedAt

\* sort.Slice is not stable: every arrangement that is in key order, with
\* records of equal keys in any order
Sorted(s, sortBy, ascending) ==
  { [i \in 1..Len(s) |-> s[p[i]]] : p \in
      { q \in Permutations(1..Len(s)) :
          \A i \in 1..(Len(s) - 1) :
            IF ascending
            THEN SortKey(s[q[i]], sortBy) <= SortKey(s[q[i + 1]], sortBy)
            ELSE SortKey(s[q[i]], sortBy) >= SortKey(s[q[i + 1]], sortBy) } }

Limit(s, limit) == IF limit > 0 /\ limit < Len(s) THEN SubSeq(s, 1, limit) ELSE s

\* the records of the sequence that the filter matches, in their order
RECURSIVE FilterSeq(_, _, _)
FilterSeq(s, filter, i) ==
  IF i > Len(s) THEN <<>>
  ELSE (IF Matches(filter, s[i]) THEN <<s[i]>> ELSE <<>>) \o FilterSeq(s, filter, i + 1)

\* what Query may return for the store content fl
QueryResults(fl, args) ==
  { Limit(s, args.limit) : s \in Sorted(FilterSeq(fl, args.filter, 1), args.sortBy, args.ascending) }

\* the calls the readers make
QueryArgs ==
  { [filter |-> NilFilter, sortBy |-> SortByBytes, ascending |-> TRUE, limit |-> 0],
    [filter |-> ParseFilter(<<"s", "p", "o", "r", "t", "=", "1", "2", "3", "4">>),
     sortBy |-> SortByBytes, ascending |-> FALSE, limit |-> 0],
    [filter |-> NilFilter, sortBy |-> SortByBytes, ascending |-> FALSE, limit |-> 1] }

NoArgs == [filter |-> NilFilter, sortBy |-> SortByTime, ascending |-> TRUE, limit |-> 0]

\* history: the store content at an instant of a running Query, and whether a
\* batch was partly applied at that instant
Snap(fl, mid) ==
  IF rdPc = "query" THEN rdSnaps \cup {[flows |-> fl, midAdd |-> mid]} ELSE rdSnaps

addVars == <<addPc, addBatch, addI, committed>>
rdVars == <<rdPc, rdArgs, rdI, rdLen, filtered, statsRet, statsAt, queryRet>>

\* Add: fs.mu.Lock()
AddLock(batch) ==
  /\ addPc = "idle"
  /\ Len(batch) > 0
  /\ WithinBudget(batch)
  /\ LockAvailable(mu)
  /\ mu' = [mu EXCEPT !.writer = TRUE]
  /\ addPc' = "loop"
  /\ addBatch' = batch
  /\ addI' = 1
  /\ UNCHANGED <<committed, rdVars, rdSnaps, storeVars>>
  /\ UNCHANGED cfgVars

\* Add: one iteration of the loop over the batch
AddFlow ==
  /\ addPc = "loop"
  /\ addI <= Len(addBatch)
  /\ stats' = AddOneStats(stats, addBatch[addI])
  /\ flowsInWindow' = flowsInWindow + 1
  /\ bytesInWindow' = bytesInWindow + addBatch[addI].Bytes
  /\ exporters' = IF addBatch[addI].ExporterIP # <<>>
                  THEN exporters \cup {addBatch[addI].ExporterIP} ELSE exporters
  /\ flows' = Append(flows, addBatch[addI])
  /\ addI' = addI + 1
  /\ rdSnaps' = Snap(flows', TRUE)
  /\ UNCHANGED <<maxFlows, lastStatsUpdate, evictionConfig, evictionStats, now>>
  /\ UNCHANGED <<mu, addPc, addBatch, committed, rdVars>>
  /\ UNCHANGED cfgVars

\* Add: the eviction pass, the rates, and the deferred fs.mu.Unlock()
AddFinish ==
  /\ addPc = "loop"
  /\ addI > Len(addBatch)
  /\ \E out \in IF Len(flows) > maxFlows
                THEN evictFlows(flows, Len(flows) - Len(addBatch), maxFlows,
                                evictionConfig, evictionStats, now)
                ELSE { [flows |-> flows, evictionStats |-> evictionStats] } :
       \E r \in {UpdateRates(stats, exporters, flowsInWindow, bytesInWindow,
                             lastStatsUpdate, now)} :
         /\ flows' = out.flows
         /\ evictionStats' = out.evictionStats
         /\ stats' = r.stats
         /\ flowsInWindow' = r.flowsInWindow
         /\ bytesInWindow' = r.bytesInWindow
         /\ lastStatsUpdate' = r.lastStatsUpdate
         /\ committed' = r.stats
         /\ rdSnaps' = Snap(out.flows, FALSE)
  /\ mu' = [mu EXCEPT !.writer = FALSE]
  /\ addPc' = "idle"
  /\ addBatch' = <<>>
  /\ addI' = 0
  /\ UNCHANGED <<maxFlows, exporters, evictionConfig, now>>
  /\ UNCHANGED rdVars
  /\ UNCHANGED cfgVars

\* GetStats: fs.mu.RLock()
GetStatsRLock ==
  /\ rdPc = "idle"
  /\ RLockAvailable(mu)
  /\ mu' = [mu EXCEPT !.readers = @ + 1]
  /\ rdPc' = "stats"
  /\ UNCHANGED <<rdArgs, rdI, rdLen, filtered, statsRet, statsAt, queryRet>>
  /\ UNCHANGED <<addVars, rdSnaps, storeVars>>
  /\ UNCHANGED cfgVars

\* GetStats: return fs.stats, and the deferred RUnlock
GetStatsReturn ==
  /\ rdPc = "stats"
  /\ statsRet' = stats
  /\ statsAt' = committed
  /\ mu' = [mu EXCEPT !.readers = @ - 1]
  /\ rdPc' = "statsRet"
  /\ UNCHANGED <<rdArgs, rdI, rdLen, filtered, queryRet>>
  /\ UNCHANGED <<addVars, rdSnaps, storeVars>>
  /\ UNCHANGED cfgVars

\* Query: fs.mu.RLock(), and the length the copy or the loop will run to
QueryRLock(args) ==
  /\ rdPc = "idle"
  /\ RLockAvailable(mu)
  /\ mu' = [mu EXCEPT !.readers = @ + 1]
  /\ rdPc' = "query"
  /\ rdArgs' = args
  /\ rdI' = 1
  /\ rdLen' = Len(flows)
  /\ filtered' = <<>>
  /\ rdSnaps' = {[flows |-> flows, midAdd |-> addPc = "loop"]}
  /\ UNCHANGED <<statsRet, statsAt, queryRet>>
  /\ UNCHANGED <<addVars, storeVars>>
  /\ UNCHANGED cfgVars

\* Query: the copy, or the filter loop, reaches the next record
QueryScan ==
  /\ rdPc = "query"
  /\ rdI <= rdLen
  /\ \E f \in {IF rdI <= Len(flows) THEN flows[rdI] ELSE ZeroFlow} :
       filtered' = IF IsEmpty(rdArgs.filter) \/ Matches(rdArgs.filter, f)
                   THEN Append(filtered, f) ELSE filtered
  /\ rdI' = rdI + 1
  /\ UNCHANGED <<rdPc, rdArgs, rdLen, statsRet, statsAt, queryRet>>
  /\ UNCHANGED <<mu, addVars, rdSnaps, storeVars>>
  /\ UNCHANGED cfgVars

\* Query: sort, limit, return, and the deferred RUnlock
QueryReturn ==
  /\ rdPc = "query"
  /\ rdI > rdLen
  /\ \E s \in Sorted(filtered, rdArgs.sortBy, rdArgs.ascending) :
       queryRet' = Limit(s, rdArgs.limit)
  /\ mu' = [mu EXCEPT !.readers = @ - 1]
  /\ rdPc' = "queryRet"
  /\ filtered' = <<>>
  /\ rdI' = 0
  /\ rdLen' = 0
  /\ UNCHANGED <<rdArgs, statsRet, statsAt>>
  /\ UNCHANGED <<addVars, rdSnaps, storeVars>>
  /\ UNCHANGED cfgVars

\* the caller has used the result and is ready for its next call
ReaderDone ==
  /\ rdPc \in {"statsRet", "queryRet"}
  /\ rdPc' = "idle"
  /\ rdArgs' = NoArgs
  /\ statsRet' = ZeroStats
  /\ statsAt' = ZeroStats
  /\ queryRet' = <<>>
  /\ rdSnaps' = {}
  /\ UNCHANGED <<rdI, rdLen, filtered>>
  /\ UNCHANGED <<mu, addVars, storeVars>>
  /\ UNCHANGED cfgVars

\* Clear and MarkFlowAccessed of the display, each under the write lock
LockedClear ==
  /\ LockAvailable(mu)
  /\ Clear
  /\ rdSnaps' = Snap(flows', addPc = "loop")
  /\ UNCHANGED <<mu, addVars, rdVars>>
  /\ UNCHANGED cfgVars

LockedMarkFlowAccessed(key) ==
  /\ LockAvailable(mu)
  /\ MarkFlowAccessed(key)
  /\ rdSnaps' = Snap(flows', addPc = "loop")
  /\ UNCHANGED <<mu, addVars, rdVars>>
  /\ UNCHANGED cfgVars

\* no EvictionConfig
NoConfig == [TopKPercent |-> 0, LRUWindow |-> 0]

\* SetEvictionConfig: fs.mu.Lock()
SetEvictionConfigLock(config) ==
  /\ cfgPc = "idle"
  /\ LockAvailable(mu)
  /\ mu' = [mu EXCEPT !.writer = TRUE]
  /\ cfgPc' = "locked"
  /\ cfgArg' = config
  /\ UNCHANGED <<getPc, getRet, held>>
  /\ UNCHANGED <<addVars, rdVars, rdSnaps, storeVars>>
  /\ UNCHANGED hfVars

\* SetEvictionConfig: fs.evictionConfig = config, a struct of two words, the
\* first word
SetEvictionConfigFirst ==
  /\ cfgPc = "locked"
  /\ evictionConfig' = [evictionConfig EXCEPT !.TopKPercent = cfgArg.TopKPercent]
  /\ cfgPc' = "half"
  /\ UNCHANGED <<cfgArg, getPc, getRet, held>>
  /\ UNCHANGED <<flows, maxFlows, stats, exporters, lastStatsUpdate, flowsInWindow,
                 bytesInWindow, evictionStats, now>>
  /\ UNCHANGED <<mu, addVars, rdVars, rdSnaps>>
  /\ UNCHANGED hfVars

\* SetEvictionConfig: the second word, and the deferred fs.mu.Unlock()
SetEvictionConfigSecond ==
  /\ cfgPc = "half"
  /\ evictionConfig' = [evictionConfig EXCEPT !.LRUWindow = cfgArg.LRUWindow]
  /\ mu' = [mu EXCEPT !.writer = FALSE]
  /\ cfgPc' = "idle"
  /\ cfgArg' = NoConfig
  /\ held' = IF getPc = "half" THEN held \cup {evictionConfig'} ELSE held
  /\ UNCHANGED <<getPc, getRet>>
  /\ UNCHANGED <<flows, maxFlows, stats, exporters, lastStatsUpdate, flowsInWindow,
                 bytesInWindow, evictionStats, now>>
  /\ UNCHANGED <<addVars, rdVars, rdSnaps>>
  /\ UNCHANGED hfVars

\* GetEvictionConfig: return fs.evictionConfig, the first word; it takes no
\* lock and so starts whoever holds fs.mu
GetEvictionConfigFirst ==
  /\ getPc = "idle"
  /\ getRet' = [NoConfig EXCEPT !.TopKPercent = evictionConfig.TopKPercent]
  /\ getPc' = "half"
  /\ held' = IF cfgPc = "half" THEN {} ELSE {evictionConfig}
  /\ UNCHANGED <<cfgPc, cfgArg>>
  /\ UNCHANGED <<mu, addVars, rdVars, rdSnaps, storeVars>>
  /\ UNCHANGED hfVars

\* GetEvictionConfig: the second word, and the return
GetEvictionConfigSecond ==
  /\ getPc = "half"
  /\ getRet' = [getRet EXCEPT !.LRUWindow = evictionConfig.LRUWindow]
  /\ getPc' = "ret"
  /\ UNCHANGED <<cfgPc, cfgArg, held>>
  /\ UNCHANGED <<mu, addVars, rdVars, rdSnaps, storeVars>>
  /\ UNCHANGED hfVars

\* the caller has used the configuration
GetEvictionConfigDone ==
  /\ getPc = "ret"
  /\ getPc' = "idle"
  /\ getRet' = NoConfig
  /\ held' = {}
  /\ UNCHANGED <<cfgPc, cfgArg>>
  /\ UNCHANGED <<mu, addVars, rdVars, rdSnaps, storeVars>>
  /\ UNCHANGED hfVars

ConcInit ==
  /\ mu = [writer |-> FALSE, readers |-> 0]
  /\ addPc = "idle"
  /\ addBatch = <<>>
  /\ addI = 0
  /\ committed = ZeroStats
  /\ rdPc = "idle"
  /\ rdArgs = NoArgs
  /\ rdI = 0
  /\ rdLen = 0
  /\ filtered = <<>>
  /\ rdSnaps = {}
  /\ statsRet = ZeroStats
  /\ statsAt = ZeroStats
  /\ queryRet = <<>>
  /\ cfgPc = "idle"
  /\ cfgArg = NoConfig
  /\ getPc = "idle"
  /\ getRet = NoConfig
  /\ held = {}
  /\ hfPc = "idle"
  /\ hfFlows = <<>>
  /\ hfTotal = 0

ConcConfigs == { [maxFlows |-> StoreCap + 1, TopKPercent |-> 50, LRUWindow |-> 1] }

\* ---------------------------------------------------------------------------
\* The HTTP API: what a request and a response hold
\* ---------------------------------------------------------------------------

\* SankeyData: the nodes and the links of a response, each as a set
SankeyData(nodes, links) == [Nodes |-> nodes, Links |-> links]

\* a request: its path and its query parameters (a number that is absent or
\* does not parse is 0, an absent string is empty)
Request(path, mode, filter, ipVersion, topN, limit, sort, asc, timeRange, leftIF, rightIF,
        leftExporter, rightExporter) ==
  [path |-> path, mode |-> mode, filter |-> filter, ipVersion |-> ipVersion, topN |-> topN,
   limit |-> limit, sort |-> sort, asc |-> asc, timeRange |-> timeRange, leftIF |-> leftIF,
   rightIF |-> rightIF, leftExporter |-> leftExporter, rightExporter |-> rightExporter]
SankeyRequest(mode, filter, ipVersion, topN, timeRange, leftIF, rightIF, leftExporter,
              rightExporter) ==
  Request("/api/v1/sankey", mode, filter, ipVersion, topN, 0, "", FALSE, timeRange, leftIF,
          rightIF, leftExporter, rightExporter)
FlowsRequest(filter, limit, sort, asc) ==
  Request("/api/v1/flows", "", filter, "", 0, limit, sort, asc, 0, 0, 0, <<>>, <<>>)
NoRequest == Request("", "", <<>>, "", 0, 0, "", FALSE, 0, 0, 0, <<>>, <<>>)

\* what a handler wrote: the status, and the fields of the ErrorResponse, the
\* FlowsResponse or the SankeyData
Response(status, error, details, fs, total, nFiltered, data, mode, filter) ==
  [status |-> status, error |-> error, details |-> details, flows |-> fs, total |-> total,
   filtered |-> nFiltered, nodes |-> data.Nodes, links |-> data.Links, mode |-> mode,
   filter |-> filter]
NoData == SankeyData({}, {})
NoResponse == Response(0, "", <<>>, <<>>, 0, 0, NoData, "", <<>>)

\* a filter text, the Filter parsed from it (its String, whether it IsValid)
\* and what Matches returned for a flow
Matched(text, f, flow) ==
  [text |-> text, raw |-> String(f), valid |-> IsValid(f), flow |-> flow,
   ret |-> Matches(f, flow)]
NoMatch == Matched(<<>>, NilFilter, ZeroFlow)

\* the arguments of a call of the display, what Query returned for them and
\* what QueryAggregatedFlows did
Queried(args, plain, aggregated) == [args |-> args, plain |-> plain, aggregated |-> aggregated]
NoQueried == Queried(NoArgs, <<>>, <<>>)

\* no request was served yet, no filter was applied, nothing was displayed
\* the records of a datagram, the exporter's address, and the flows and the
\* error Parse returned
RoundTrip(records, addr, r) ==
  [records |-> records, addr |-> addr, flows |-> r.flows, err |-> r.err, parsed |-> TRUE]
NoRoundTrip == [records |-> <<>>, addr |-> <<>>, flows |-> <<>>, err |-> FALSE, parsed |-> FALSE]

ApiInit ==
  /\ request = NoRequest
  /\ response = NoResponse
  /\ matched = NoMatch
  /\ queried = NoQueried
  /\ roundTrip = NoRoundTrip
  /\ passed = <<>>

\* parser.New(): empty caches, nothing parsed yet
ParserInit ==
  /\ parser = [v9Templates |-> EmptyMap, ipfixTemplates |-> EmptyMap]
  /\ crashed = FALSE
  /\ announced = EmptyMap
  /\ installedBy = EmptyMap
  /\ ingestResult = "none"

\* listener.New and Start, and the goroutines runCollector starts
PipeInit ==
  /\ packets = <<>>
  /\ stopChan = "open"
  /\ conn = "open"
  /\ readPc = "select"
  /\ readPkt = 0
  /\ ingestPc = "range"
  /\ mainPc = "running"
  /\ received = 0
  /\ accepted = <<>>
  /\ dropped = {}
  /\ delivered = <<>>

Init == StoreInit(StoreConfigs) /\ ParserInit /\ PipeInit /\ ConcInit /\ ApiInit

Next ==
  \/ \E batch \in Batches : WithinBudget(batch) /\ Add(batch) /\ UNCHANGED otherVars
  \/ \E key \in FlowKeys : MarkFlowAccessed(key) /\ UNCHANGED otherVars
  \/ \E keys \in UNION { [1..n -> FlowKeys] : n \in 1..2 } :
        MarkFlowsAccessed(keys) /\ UNCHANGED otherVars
  \/ Tick /\ UNCHANGED otherVars

Spec == Init /\ [][Next]_vars

\* the same store constructed with the larger capacity
InitElephant == StoreInit(ElephantConfigs) /\ ParserInit /\ PipeInit /\ ConcInit /\ ApiInit

SpecElephant == InitElephant /\ [][Next]_vars

(***************************************************************************)
(* Properties of the eviction pass.  Passes is the set of eviction passes  *)
(* that Add runs from the current store state, one for every batch that    *)
(* overflows the store and every order sort.Slice may produce.             *)
(***************************************************************************)
Passes ==
  UNION { { out.pass : out \in evictFlows(flows \o batch, Len(flows), maxFlows,
                                          evictionConfig, evictionStats, now) }
          : batch \in { b \in Batches : Len(flows) + Len(b) > maxFlows } }

\* the indices of the flows pass p started with
PassIdx(p) == 1..Len(p.pre)

\* a flow the pass kept
Survives(p, i) == i \in PassIdx(p) \ p.removed

\* at most topKCount flows are as large: the flow is among the topKCount
\* largest whichever way ties are broken
AmongTopK(p, i) ==
  Cardinality({ j \in PassIdx(p) : p.pre[j].Bytes >= p.pre[i].Bytes })
    <= TopKCount(maxFlows, evictionConfig)

\* LastAccessed is set and within lruWindow of the pass
Recent(p, i) ==
  /\ p.pre[i].LastAccessed # 0
  /\ p.at - p.pre[i].LastAccessed < evictionConfig.LRUWindow

\* neither Top-K nor LRU protected when the pass starts
Unprotected(p) == { i \in PassIdx(p) : i \notin p.topk /\ ~Recent(p, i) }

\* C1: the store never holds more than maxFlows + topKCount flows, where
\* topKCount = floor(maxFlows * topKPercent / 100)
C1_StoreCap ==
  Len(flows) <= maxFlows + ((maxFlows * evictionConfig.TopKPercent) \div 100)

\* an eviction pass has left the store over maxFlows
C1_Witness == evictionStats.TotalEvicted > 0 /\ Len(flows) > maxFlows

\* C2: a flow that is among the topKCount largest and was stored before the
\* overflowing Add is not removed by the pass while a flow with strictly
\* fewer bytes stays in the store
C2_TopKProtection ==
  \A p \in Passes : \A i \in p.removed :
    ~ /\ i <= p.stored
      /\ AmongTopK(p, i)
      /\ \E j \in PassIdx(p) : Survives(p, j) /\ p.pre[j].Bytes < p.pre[i].Bytes

\* C3: with topKCount >= 1, the one flow whose bytes value is positive and
\* strictly greater than every other flow's is never evicted
C3_Elephant ==
  \A p \in Passes : \A i \in PassIdx(p) :
    ( /\ TopKCount(maxFlows, evictionConfig) >= 1
      /\ p.pre[i].Bytes > 0
      /\ \A j \in PassIdx(p) \ {i} : p.pre[j].Bytes < p.pre[i].Bytes )
    => i \notin p.removed

\* C4 as stated: a recently accessed flow is not removed by a pass that
\* starts with at least one unprotected flow
C4_LRUProtectionAsStated ==
  \A p \in Passes :
    Unprotected(p) # {}
      => \A i \in PassIdx(p) : Recent(p, i) => i \notin p.removed

\* C4: a recently accessed flow is not removed by a pass that starts with at
\* least as many unprotected flows as it has to evict
C4_LRUProtection ==
  \A p \in Passes :
    Cardinality(Unprotected(p)) >= p.toEvict
      => \A i \in PassIdx(p) : Recent(p, i) => i \notin p.removed

\* an earlier pass has kept an LRU-protected flow, and the store is in a state
\* from which a pass evicts unprotected flows and keeps an LRU-protected one
C4_Witness ==
  /\ evictionStats.TotalEvicted > 0
  /\ evictionStats.LRUProtected > 0
  /\ \E p \in Passes :
       /\ p.toEvict > 0
       /\ Cardinality(Unprotected(p)) >= p.toEvict
       /\ \E i \in PassIdx(p) : Recent(p, i) /\ i \notin p.topk /\ Survives(p, i)

\* ---------------------------------------------------------------------------
\* Parser: the datagrams exporters send, and the parser fed with them
\* ---------------------------------------------------------------------------

\* binary.BigEndian writers
B16(v) == <<v \div 256, v % 256>>
B32(v) == B16(v \div 65536) \o B16(v % 65536)

RECURSIVE Concat(_, _)
Concat(ss, i) == IF i > Len(ss) THEN <<>> ELSE ss[i] \o Concat(ss, i + 1)

\* the header fields every modelled datagram carries
SysUptime == 5000
UnixSecs == 100
SourceID == 7

\* the field lists exporters announce: protocol and a 2-byte counter, a
\* 4-byte counter alone, and a 1-byte source port before a 2-byte counter
FieldsA == <<[Type |-> NF9_PROTOCOL, Length |-> 1], [Type |-> NF9_IN_BYTES, Length |-> 2]>>
FieldsB == <<[Type |-> NF9_IN_BYTES, Length |-> 4]>>
FieldsP == <<[Type |-> NF9_L4_SRC_PORT, Length |-> 1], [Type |-> NF9_IN_BYTES, Length |-> 2]>>

\* the flowsets (sets) a datagram is made of, as the exporter means them
TemplateSet(id, defs) == [kind |-> "template", id |-> id, defs |-> defs, payload |-> <<>>]
DataSet(id, payload) == [kind |-> "data", id |-> id, defs |-> <<>>, payload |-> payload]
OptionsSet == [kind |-> "options", id |-> 0, defs |-> <<>>, payload |-> <<1, 0, 0, 4>>]

SetMenu ==
  { TemplateSet(256, FieldsA), TemplateSet(256, FieldsB), TemplateSet(257, FieldsP),
    DataSet(256, <<6, 0, 1, 17, 0, 2, 0>>), DataSet(257, <<1, 0, 5>>), OptionsSet }

Versions == {NetFlowV9, IPFIX}
Exporters == {ExporterA, ExporterB}

\* the datagrams: a version and up to MaxSets flowsets
Datagrams ==
  { [version |-> v, sets |-> s] :
      v \in Versions, s \in UNION { [1..n -> SetMenu] : n \in 1..MaxSets } }

\* the wire form of one flowset: id, length, body
EncodeSet(version, s) ==
  LET body == CASE s.kind = "template" ->
                     B16(s.id) \o B16(Len(s.defs)) \o
                     Concat([i \in 1..Len(s.defs) |->
                               B16(s.defs[i].Type) \o B16(s.defs[i].Length)], 1)
                [] OTHER -> s.payload
      id == CASE s.kind = "template" -> IF version = NetFlowV9 THEN 0 ELSE 2
              [] s.kind = "options" -> IF version = NetFlowV9 THEN 1 ELSE 3
              [] OTHER -> s.id
  IN B16(id) \o B16(Len(body) + 4) \o body

\* the wire form of a datagram: the v9 header counts its flowsets, the IPFIX
\* header holds the total length
Encode(dg) ==
  LET body == Concat([i \in 1..Len(dg.sets) |-> EncodeSet(dg.version, dg.sets[i])], 1)
  IN IF dg.version = NetFlowV9
     THEN B16(9) \o B16(Len(dg.sets)) \o B32(SysUptime) \o B32(UnixSecs) \o B32(0) \o
          B32(SourceID) \o body
     ELSE B16(10) \o B16(ipfixHeaderSize + Len(body)) \o B32(UnixSecs) \o B32(0) \o
          B32(SourceID) \o body

\* the cache of the version's templates
CacheOf(p, version) == IF version = NetFlowV9 THEN p.v9Templates ELSE p.ipfixTemplates

\* the cached template under (version, source id, template id), or "none"
Cached(p, version, sid, tid) ==
  IF sid \in DOMAIN CacheOf(p, version) /\ tid \in DOMAIN CacheOf(p, version)[sid]
  THEN CacheOf(p, version)[sid][tid] ELSE "none"

\* the template ids the datagram's template flowsets define
TemplateIDs(dg) == { dg.sets[i].id : i \in { j \in 1..Len(dg.sets) : dg.sets[j].kind = "template" } }

\* the record length each (version, template id) was last announced with,
\* after the first n flowsets of the datagram
RECURSIVE AnnouncedAfter(_, _, _)
AnnouncedAfter(dg, ann, n) ==
  IF n = 0 THEN ann
  ELSE LET a == AnnouncedAfter(dg, ann, n - 1)
           s == dg.sets[n]
       IN IF s.kind = "template"
          THEN MapPut(a, <<dg.version, s.id>>, SumLengths(s.defs, 1))
          ELSE a

\* Parser.Parse of one received datagram
ParseDatagram(dg, addr) ==
  /\ ~crashed
  /\ \E data \in {Encode(dg)} :
       \E r \in {Parse(data, addr, parser, now)} :
         /\ parser' = r.parser
         /\ crashed' = r.panic
  /\ announced' = AnnouncedAfter(dg, announced, Len(dg.sets))
  /\ installedBy' = [k \in DOMAIN installedBy \cup
                           { <<dg.version, SourceID, tid>> : tid \in TemplateIDs(dg) } |->
                       IF k[1] = dg.version /\ k[3] \in TemplateIDs(dg)
                       THEN addr ELSE installedBy[k]]
  /\ UNCHANGED <<ingestResult, storeVars, pipeVars, concVars, apiVars>>

InitParser == StoreInit(ElephantConfigs) /\ ParserInit /\ PipeInit /\ ConcInit /\ ApiInit

NextParser == \E dg \in Datagrams, addr \in Exporters : ParseDatagram(dg, addr)

SpecParser == InitParser /\ [][NextParser]_vars

\* the flows the i-th and later flowsets of a datagram stand for, given the
\* record lengths announced so far: floor(payloadLen / templateLen) for a data
\* flowset whose template was announced, none otherwise
RECURSIVE ExpectedFlows(_, _, _)
ExpectedFlows(dg, ann, i) ==
  IF i > Len(dg.sets) THEN 0
  ELSE LET a == AnnouncedAfter(dg, ann, i - 1)
           s == dg.sets[i]
           k == <<dg.version, s.id>>
       IN (IF s.kind = "data" /\ k \in DOMAIN a /\ a[k] > 0
           THEN Len(s.payload) \div a[k] ELSE 0)
          + ExpectedFlows(dg, ann, i + 1)

\* C9: whatever was received before, every datagram parses without a failure
\* and without an error into exactly the flows its data flowsets stand for
\* under the templates announced so far: none for a flowset whose template was
\* not announced, floor(payloadLen / templateLen) for one whose template was
C9_TemplateOrdering ==
  ~crashed =>
    \A dg \in Datagrams, addr \in Exporters :
      LET r == Parse(Encode(dg), addr, parser, now)
      IN /\ ~r.panic
         /\ ~r.err
         /\ Len(r.flows) = ExpectedFlows(dg, announced, 1)

\* C10: a template defined by one exporter's datagram is neither replaced by
\* nor used to decode a datagram of another exporter
C10_PerExporterCache ==
  ~crashed =>
    \A dg \in Datagrams, addr \in Exporters :
      LET r == Parse(Encode(dg), addr, parser, now)
          foreign == { k \in DOMAIN installedBy : k[1] = dg.version /\ installedBy[k] # addr }
      IN /\ \A k \in foreign :
              Cached(r.parser, k[1], k[2], k[3]) = Cached(parser, k[1], k[2], k[3])
         /\ (/\ Len(dg.sets) = 1
             /\ dg.sets[1].kind = "data"
             /\ <<dg.version, SourceID, dg.sets[1].id>> \in foreign) => r.flows = <<>>

\* ---------------------------------------------------------------------------
\* The UDP -> parser -> store pipeline and its shutdown
\* ---------------------------------------------------------------------------

\* one 48-byte NetFlow v5 record of the k-th datagram
V5Record(k) ==
  B32(167772160 + k) \o B32(134744072) \o B32(0) \o B16(1) \o B16(2) \o
  B32(k) \o B32(100 * k) \o B32(1000) \o B32(2000) \o
  B16(1024 + k) \o B16(53) \o <<0, 0, 17, 0>> \o B16(0) \o B16(0) \o <<0, 0, 0, 0>>

\* what the k-th datagram on the wire holds: every third one is of a version
\* the parser rejects, the others are NetFlow v5 datagrams with one record
Payload(k) ==
  IF k % 3 = 0 THEN B16(7) \o B16(0)
  ELSE B16(5) \o B16(1) \o B32(SysUptime) \o B32(UnixSecs) \o B32(0) \o B32(k) \o
       <<0, 0, 0, 0>> \o V5Record(k)

\* l.packets <- pkt without a default branch: waits while the buffer is full
BlockingSend(ch, pkt) ==
  IF Len(ch) < ChanCap
  THEN [blocked |-> FALSE, sent |-> TRUE, ch |-> Append(ch, pkt)]
  ELSE [blocked |-> TRUE, sent |-> FALSE, ch |-> ch]

\* select { case l.packets <- pkt: default: } on the channel ch: the send
\* goes through when the buffer has room, else the default branch drops pkt;
\* the select never waits
TrySend(ch, pkt) ==
  IF Len(ch) < ChanCap
  THEN [blocked |-> FALSE, sent |-> TRUE, ch |-> Append(ch, pkt)]
  ELSE [blocked |-> FALSE, sent |-> FALSE, ch |-> ch]

\* the process is alive: runCollector has not returned and no goroutine panicked
Alive == mainPc # "returned" /\ ~crashed

\* readLoop, the outer select: return when stopChan is closed, else go on to read
ReadLoopSelect ==
  /\ Alive
  /\ readPc = "select"
  /\ readPc' = IF stopChan = "closed" THEN "done" ELSE "read"
  /\ UNCHANGED <<packets, stopChan, conn, readPkt, ingestPc, mainPc, received,
                 accepted, dropped, delivered>>
  /\ UNCHANGED <<storeVars, parserVars, concVars, apiVars>>

\* readLoop, ReadFromUDP: the next datagram, or an error once the socket is
\* closed; the call waits while neither is there
ReadFromUDP ==
  /\ Alive
  /\ readPc = "read"
  /\ IF conn = "closed"
     THEN /\ readPc' = "errselect"
          /\ UNCHANGED <<readPkt, received>>
     ELSE /\ received < MaxDatagrams
          /\ received' = received + 1
          /\ readPkt' = received + 1
          /\ readPc' = "send"
  /\ UNCHANGED <<packets, stopChan, conn, ingestPc, mainPc, accepted, dropped, delivered>>
  /\ UNCHANGED <<storeVars, parserVars, concVars, apiVars>>

\* readLoop, the select after a read error: return when stopChan is closed,
\* else continue with the loop
ReadErrorSelect ==
  /\ Alive
  /\ readPc = "errselect"
  /\ readPc' = IF stopChan = "closed" THEN "done" ELSE "select"
  /\ UNCHANGED <<packets, stopChan, conn, readPkt, ingestPc, mainPc, received,
                 accepted, dropped, delivered>>
  /\ UNCHANGED <<storeVars, parserVars, concVars, apiVars>>

\* readLoop, the select that offers the datagram to the channel
Send ==
  /\ Alive
  /\ readPc = "send"
  /\ \E r \in {TrySend(packets, readPkt)} :
       /\ ~r.blocked
       /\ packets' = r.ch
       /\ accepted' = IF r.sent THEN Append(accepted, readPkt) ELSE accepted
       /\ dropped' = IF r.sent THEN dropped ELSE dropped \cup {readPkt}
  /\ readPkt' = 0
  /\ readPc' = "select"
  /\ UNCHANGED <<stopChan, conn, ingestPc, mainPc, received, delivered>>
  /\ UNCHANGED <<storeVars, parserVars, concVars, apiVars>>

\* how a call of Parse ended
ParseOutcome(r) == IF r.panic THEN "panic" ELSE IF r.err THEN "error" ELSE "ok"

\* one round of the ingest goroutine's for ... range udpListener.Packets():
\* take the oldest datagram, Parse it, and Add its flows unless Parse failed.
\* The range ends only on a closed and empty channel, and nothing closes
\* l.packets.
Ingest ==
  /\ Alive
  /\ ingestPc = "range"
  /\ Len(packets) > 0
  /\ packets' = Tail(packets)
  /\ delivered' = Append(delivered, Head(packets))
  /\ \E data \in {Payload(Head(packets))} :
       \E r \in {Parse(data, ExporterA, parser, now)} :
         /\ parser' = r.parser
         /\ crashed' = r.panic
         /\ ingestResult' = ParseOutcome(r)
         /\ IF r.err \/ r.panic THEN UNCHANGED storeVars ELSE Add(r.flows)
  /\ UNCHANGED <<announced, installedBy, concVars, apiVars>>
  /\ UNCHANGED <<stopChan, conn, readPc, readPkt, ingestPc, mainPc, received,
                 accepted, dropped>>

\* UDPListener.Stop, called by runCollector when the display returns
Stop ==
  /\ Alive
  /\ mainPc = "running"
  /\ stopChan' = "closed"
  /\ conn' = "closed"
  /\ mainPc' = "stopped"
  /\ UNCHANGED <<packets, readPc, readPkt, ingestPc, received, accepted, dropped,
                 delivered>>
  /\ UNCHANGED <<storeVars, parserVars, concVars, apiVars>>

\* runCollector prints the final statistics and returns, which ends the
\* process and every goroutine in it
Return ==
  /\ Alive
  /\ mainPc = "stopped"
  /\ mainPc' = "returned"
  /\ UNCHANGED <<packets, stopChan, conn, readPc, readPkt, ingestPc, received,
                 accepted, dropped, delivered>>
  /\ UNCHANGED <<storeVars, parserVars, concVars, apiVars>>

InitPipe == StoreInit(ElephantConfigs) /\ ParserInit /\ PipeInit /\ ConcInit /\ ApiInit

NextPipe ==
  \/ ReadLoopSelect
  \/ ReadFromUDP
  \/ ReadErrorSelect
  \/ Send
  \/ Ingest
  \/ Stop
  \/ Return

SpecPipe == InitPipe /\ [][NextPipe]_vars

\* the goroutines are scheduled fairly and runCollector does return
SpecPipeFair ==
  /\ SpecPipe
  /\ WF_vars(ReadLoopSelect)
  /\ WF_vars(ReadFromUDP)
  /\ WF_vars(ReadErrorSelect)
  /\ WF_vars(Send)
  /\ WF_vars(Ingest)
  /\ WF_vars(Return)

RECURSIVE Increasing(_, _)
Increasing(s, i) == i >= Len(s) \/ (s[i] < s[i + 1] /\ Increasing(s, i + 1))

Range(s) == { s[i] : i \in 1..Len(s) }

\* C7: the receive loop's send to the channel never waits, the channel never
\* holds more than its capacity, a dropped datagram is neither in the channel
\* nor delivered, and the accepted datagrams reach the ingest goroutine in the
\* order they were received
C7_DropOnFull ==
  /\ readPc = "send" => ~TrySend(packets, readPkt).blocked
  /\ Len(packets) <= ChanCap
  /\ dropped \cap (Range(packets) \cup Range(delivered)) = {}
  /\ delivered \o packets = accepted
  /\ Increasing(accepted, 1)

C7_Witness ==
  /\ dropped # {}
  /\ Len(delivered) >= 2
  /\ \E d \in dropped : d < delivered[Len(delivered)]

\* C8: once Stop was called the receive loop ends, the channel is emptied and
\* the ingest goroutine leaves its loop
C8_CooperativeShutdown ==
  (mainPc # "running") ~> (readPc = "done" /\ packets = <<>> /\ ingestPc = "exited")


\* ---------------------------------------------------------------------------
\* The ingest goroutine fed with well-formed and malformed datagrams
\* ---------------------------------------------------------------------------

\* the number of datagrams the ingest goroutine is fed with
MaxIngest == 3

\* n zero bytes
Zeros(n) == [i \in 1..n |-> 0]

\* an IPFIX datagram whose header declares extra more bytes than it has
IPFIXOverlong(dg, extra) ==
  LET data == Encode(dg)
  IN B16(10) \o B16(Len(data) + extra) \o Slice(data, 4, Len(data))

\* datagrams as they arrive from the network, sound or not: empty, one byte,
\* an unknown version, v5 with a short header, v5 declaring one or two records
\* and holding none or one, v5 with no and with one record, v9 and IPFIX with
\* short headers, IPFIX declaring more bytes than it has
RawDatagrams ==
  { <<>>, <<0>>,
    B16(7) \o B16(0),
    B16(0) \o Zeros(30),
    B16(5) \o Zeros(10),
    B16(5) \o B16(1) \o Zeros(20),
    B16(5) \o B16(2) \o Zeros(20) \o V5Record(1),
    B16(5) \o B16(0) \o Zeros(20),
    Payload(1),
    B16(9) \o B16(1) \o Zeros(12),
    B16(10) \o B16(12) \o Zeros(8),
    B16(10) \o B16(17) \o B32(UnixSecs) \o B32(0) \o B32(SourceID),
    IPFIXOverlong([version |-> IPFIX, sets |-> <<TemplateSet(256, FieldsA)>>], 1),
    IPFIXOverlong([version |-> IPFIX,
                   sets |-> <<TemplateSet(256, FieldsB), DataSet(256, <<0, 0, 0, 9>>)>>], 4) }

\* the well-formed template and data datagrams among them
SoundDatagrams ==
  { [version |-> v, sets |-> s] :
      v \in Versions,
      s \in { <<TemplateSet(256, FieldsA)>>, <<TemplateSet(257, FieldsP)>>,
              <<DataSet(256, <<6, 0, 1, 17, 0, 2, 0>>)>>, <<DataSet(257, <<1, 0, 5>>)>>,
              <<TemplateSet(256, FieldsB), DataSet(256, <<0, 0, 0, 9>>)>> } }

\* an IPFIX set and an IPFIX message given as bytes
IPFIXSet(id, body) == B16(id) \o B16(Len(body) + ipfixSetHeaderSize) \o body
IPFIXMessage(sets) ==
  B16(10) \o B16(ipfixHeaderSize + Len(sets)) \o B32(UnixSecs) \o B32(0) \o
  B32(SourceID) \o sets

\* the information element numbers an enterprise may use for its own fields:
\* they coincide with octetDeltaCount, sourceTransportPort, or with nothing
EnterpriseTypes == {IPFIX_OCTET_DELTA_COUNT, IPFIX_SOURCE_TRANSPORT_PORT, 9999}

\* template 300 made of a 2-byte enterprise field (high bit set, enterprise
\* number 9) and a 2-byte packetDeltaCount, and one record: 42 in the
\* enterprise field, 3 packets
EnterpriseDatagram(type) ==
  IPFIXMessage(IPFIXSet(2, B16(300) \o B16(2) \o B16(32768 + type) \o B16(2) \o B32(9) \o
                           B16(IPFIX_PACKET_DELTA_COUNT) \o B16(2)) \o
               IPFIXSet(300, B16(42) \o B16(3)))

\* the same template and record without the enterprise field
PlainDatagram ==
  IPFIXMessage(IPFIXSet(2, B16(300) \o B16(1) \o B16(IPFIX_PACKET_DELTA_COUNT) \o B16(2)) \o
               IPFIXSet(300, B16(3)))

Wire ==
  RawDatagrams \cup { Encode(dg) : dg \in SoundDatagrams } \cup
  { EnterpriseDatagram(type) : type \in EnterpriseTypes } \cup { PlainDatagram }

\* the body of the ingest goroutine's loop for one datagram taken from the
\* channel: Parse it; on an error go on with the next datagram, else Add
IngestDatagram(data, addr) ==
  /\ ~crashed
  /\ received < MaxIngest
  /\ received' = received + 1
  /\ \E r \in {Parse(data, addr, parser, now)} :
       /\ parser' = r.parser
       /\ crashed' = r.panic
       /\ ingestResult' = ParseOutcome(r)
       /\ IF r.err \/ r.panic THEN UNCHANGED storeVars ELSE Add(r.flows)
  /\ UNCHANGED <<announced, installedBy, concVars, apiVars>>
  /\ UNCHANGED <<packets, stopChan, conn, readPc, readPkt, ingestPc, mainPc, accepted,
                 dropped, delivered>>

InitIngest == StoreInit(ElephantConfigs) /\ ParserInit /\ PipeInit /\ ConcInit /\ ApiInit

NextIngest == \E data \in Wire, addr \in Exporters : IngestDatagram(data, addr)

SpecIngest == InitIngest /\ [][NextIngest]_vars

C13_EnterpriseBit ==
  ~crashed =>
    \A type \in EnterpriseTypes, addr \in Exporters :
      LET r == Parse(EnterpriseDatagram(type), addr, parser, now)
          plain == Parse(PlainDatagram, addr, parser, now)
      IN /\ ~r.panic /\ ~r.err
         /\ Len(plain.flows) = 1 /\ plain.flows[1].Packets = 3
         /\ r.flows = plain.flows

\* C12: a datagram for which Parse returned an error leaves the store and the
\* template caches as they were, and the ingest goroutine goes on
C12_ParseErrorIsolation ==
  [][ingestResult' = "error" =>
        /\ UNCHANGED <<storeVars, parser>>
        /\ ~crashed'
        /\ ingestPc' = "range"]_vars

\* a datagram was refused while flows were stored and templates cached
C12_Witness ==
  /\ ingestResult = "error"
  /\ received = MaxIngest
  /\ stats.IPFIXFlows > 0
  /\ parser.ipfixTemplates # EmptyMap


\* ---------------------------------------------------------------------------
\* The store under concurrent use
\* ---------------------------------------------------------------------------
InitConc == StoreInit(ConcConfigs) /\ ParserInit /\ PipeInit /\ ConcInit /\ ApiInit

NextConc ==
  \/ \E batch \in Batches : AddLock(batch) /\ UNCHANGED <<parserVars, pipeVars, apiVars>>
  \/ AddFlow /\ UNCHANGED <<parserVars, pipeVars, apiVars>>
  \/ AddFinish /\ UNCHANGED <<parserVars, pipeVars, apiVars>>
  \/ GetStatsRLock /\ UNCHANGED <<parserVars, pipeVars, apiVars>>
  \/ GetStatsReturn /\ UNCHANGED <<parserVars, pipeVars, apiVars>>
  \/ \E args \in QueryArgs : QueryRLock(args) /\ UNCHANGED <<parserVars, pipeVars, apiVars>>
  \/ QueryScan /\ UNCHANGED <<parserVars, pipeVars, apiVars>>
  \/ QueryReturn /\ UNCHANGED <<parserVars, pipeVars, apiVars>>
  \/ ReaderDone /\ UNCHANGED <<parserVars, pipeVars, apiVars>>
  \/ LockedClear /\ UNCHANGED <<parserVars, pipeVars, apiVars>>
  \/ \E key \in FlowKeys : LockedMarkFlowAccessed(key) /\ UNCHANGED <<parserVars, pipeVars, apiVars>>

SpecConc == InitConc /\ [][NextConc]_vars

\* C5: the Stats a GetStats call returns are the Stats as the last completed
\* Add left them at the instant of the read, never those of a batch in progress
C5_StatsAtomicity == rdPc = "statsRet" => statsRet = statsAt

C5_Witness ==
  /\ rdPc = "statsRet"
  /\ statsRet.TotalFlows > 0
  /\ addPc = "loop"
  /\ addI > 1

\* C6: what a Query call returns is the filtered, sorted and limited content
\* the store had at one instant of the call at which no batch was partly applied
C6_QuerySnapshot ==
  rdPc = "queryRet" =>
    \E s \in rdSnaps : ~s.midAdd /\ queryRet \in QueryResults(s.flows, rdArgs)

C6_Witness ==
  /\ rdPc = "queryRet"
  /\ Len(queryRet) >= 2
  /\ evictionStats.TotalEvicted > 0
  /\ addPc = "loop"
  /\ addI > 1

\* ---------------------------------------------------------------------------
\* The HTTP API over the store
\* ---------------------------------------------------------------------------

\* the number of flows the store of the API server is filled with
MaxApiFlows == 3

\* the printable ASCII characters in their order (the quote, the backslash and the
\* backtick, which no address holds, by name), and Go's < on strings
Ascii ==
  <<" ", "!", "dq", "#", "$", "%", "&", "'", "(", ")", "*", "+", ",", "-", ".", "/", "0", "1", "2", "3", "4", "5", "6", "7", "8", "9", ":", ";", "<", "=", ">", "?", "@", "A", "B", "C", "D", "E", "F", "G", "H", "I", "J", "K", "L", "M", "N", "O">> \o
  <<"P", "Q", "R", "S", "T", "U", "V", "W", "X", "Y", "Z", "[", "bs", "]", "^", "_", "bt", "a", "b", "c", "d", "e", "f", "g", "h", "i", "j", "k", "l", "m", "n", "o", "p", "q", "r", "s", "t", "u", "v", "w", "x", "y", "z", "{", "|", "}", "~">>
Ord(c) == 31 + CHOOSE i \in 1..Len(Ascii) : Ascii[i] = c
RECURSIVE StrLess(_, _)
StrLess(a, b) ==
  IF Len(b) = 0 THEN FALSE
  ELSE IF Len(a) = 0 THEN TRUE
  ELSE IF a[1] = b[1] THEN StrLess(Tail(a), Tail(b))
  ELSE Ord(a[1]) < Ord(b[1])

\* a flow as the parser hands it to Add
ApiFlow(src, sport, dst, dport, proto, bytes, inIf, outIf, exp, at) ==
  [ZeroFlow EXCEPT !.Version = NetFlowV9, !.SrcAddr = src, !.SrcPort = sport,
                   !.DstAddr = dst, !.DstPort = dport, !.Protocol = proto,
                   !.Bytes = bytes, !.Packets = 1, !.InputIf = inIf, !.OutputIf = outIf,
                   !.ExporterIP = exp, !.ReceivedAt = at]

\* the traffic behind the firewall, in the order the exporters sent it: two
\* inside hosts talked to each other a while ago; two inside hosts talk to
\* three outside hosts through the interfaces 3 and 4, with equal volumes;
\* one answer comes back
ApiTraffic ==
  << ApiFlow(<<10, 0, 0, 1>>, 1234, <<10, 0, 0, 2>>, 22, 6, 7, 1, 2, ExporterA, 0),
     ApiFlow(<<10, 0, 0, 1>>, 1234, <<8, 8, 8, 8>>, 53, 17, 5, 1, 3, ExporterA, 2),
     ApiFlow(<<10, 0, 0, 2>>, 4321, <<1, 1, 1, 1>>, 443, 6, 5, 2, 3, ExporterA, 2),
     ApiFlow(<<8, 8, 8, 8>>, 53, <<10, 0, 0, 1>>, 1234, 17, 5, 3, 1, ExporterA, 2),
     ApiFlow(<<10, 0, 0, 1>>, 1234, <<9, 9, 9, 9>>, 80, 6, 5, 1, 4, ExporterB, 2) >>

ApiFlows == { ApiTraffic[i] : i \in 1..Len(ApiTraffic) }

\* the place of a flow in the traffic
SentAt(f) == CHOOSE i \in 1..Len(ApiTraffic) : ApiTraffic[i] = f

\* the filter strings clients send
FilterStrings ==
  { <<>>,
    <<"p", "o", "r", "t", "=", "5", "3">>,
    <<"p", "r", "o", "t", "o", "=", "t", "c", "p">>,
    <<"i", "p", "=", "1", "0", ".", "0", ".", "0", ".", "1">>,
    <<"s", "r", "c", "=", "1", "0", ".", "0", ".", "0", ".", "0", "/", "8", " ", "&", "&", " ", "!", "p", "o", "r", "t", "=", "5", "3">>,
    <<"s", "r", "c", "=">>,
    <<"b", "o", "g", "u", "s", "=", "1">>,
    <<"p", "o", "r", "t", "=", "8", "0", " ", "|", "|">>,
    <<"(", "p", "o", "r", "t", "=", "5", "3">>,
    <<"p", "o", "r", "t", "=", "9", "9", "9", "9", "9">> }

\* the sum of Val over the records of the sequence that Keep holds for
RECURSIVE SumSeq(_, _)
SumSeq(s, i) == IF i > Len(s) THEN 0 ELSE s[i] + SumSeq(s, i + 1)
SumWhere(s, Keep(_), Val(_)) ==
  SumSeq([i \in 1..Len(s) |-> IF Keep(s[i]) THEN Val(s[i]) ELSE 0], 1)

\* the number of records of the sequence that Keep holds for
CountWhere(s, Keep(_)) == Cardinality({ i \in 1..Len(s) : Keep(s[i]) })

\* the arrangements of a finite set as a sequence
Orderings(S) ==
  { s \in [1..Cardinality(S) -> S] : \A x \in S : \E i \in 1..Cardinality(S) : s[i] = x }

\* sort.Slice, largest first, of what comes out of a map in any order: every
\* arrangement in which the values do not increase
RankedBy(S, Val(_)) ==
  { s \in Orderings(S) : \A i \in 1..(Len(s) - 1) : Val(s[i]) >= Val(s[i + 1]) }

\* links[:topN] when there are more than topN
TopN(s, topN) == IF Len(s) > topN THEN SubSeq(s, 1, topN) ELSE s

\* the protocol names the loop over protoCount may end with for the flows of
\* one link: one with the largest byte sum, or none when every sum is 0
DominantProtocols(fs, InLink(_)) ==
  LET names == { ProtocolName(fs[i]) : i \in { j \in 1..Len(fs) : InLink(fs[j]) } }
      total(name) == SumWhere(fs, LAMBDA f : InLink(f) /\ ProtocolName(f) = name,
                              LAMBDA f : f.Bytes)
      best == { n \in names : total(n) > 0 /\ \A m \in names : total(m) <= total(n) }
  IN IF best = {} THEN {<<>>} ELSE best

\* the instant a time range reaches back to; NoCutoff is the zero time.Time
NoCutoff == 0 - 1
CutoffTime(timeRange, t) == IF timeRange > 0 THEN t - timeRange ELSE NoCutoff

\* the flows a cutoff leaves: none received before it
RECURSIVE SinceCutoff(_, _, _)
SinceCutoff(fs, cutoffTime, i) ==
  IF i > Len(fs) THEN <<>>
  ELSE (IF cutoffTime # NoCutoff /\ fs[i].ReceivedAt < cutoffTime THEN <<>> ELSE <<fs[i]>>) \o
       SinceCutoff(fs, cutoffTime, i + 1)

\* a SankeyLink
SankeyLink(source, target, fs, InLink(_), protocol) ==
  [Source |-> source, Target |-> target,
   Value |-> SumWhere(fs, InLink, LAMBDA f : f.Bytes),
   Packets |-> SumWhere(fs, InLink, LAMBDA f : f.Packets),
   Protocol |-> protocol, Flows |-> CountWhere(fs, InLink), Inferred |-> FALSE]

\* the link sets a linkMap can turn into, one link for each key, given what
\* the links of one key may be
LinkSets(keys, LinksOf(_)) ==
  { { pick[k] : k \in keys } :
      pick \in { p \in [keys -> UNION { LinksOf(k) : k \in keys }] :
                   \A k \in keys : p[k] \in LinksOf(k) } }

\* the nodeSet built from the links in their order: an id gets the type of
\* the place it is first met at
RECURSIVE NodeTypes(_, _, _, _, _)
NodeTypes(links, i, types, sourceType, targetType) ==
  IF i > Len(links) THEN types
  ELSE LET t1 == IF links[i].Source \in DOMAIN types THEN types
                 ELSE MapPut(types, links[i].Source, sourceType)
           t2 == IF links[i].Target \in DOMAIN t1 THEN t1
                 ELSE MapPut(t1, links[i].Target, targetType)
       IN NodeTypes(links, i + 1, t2, sourceType, targetType)

\* the nodes of a response, in no order; no host name is cached for a label
SankeyNodes(types) ==
  { [ID |-> id, Type |-> types[id], Label |-> id, SortKey |-> 0] : id \in DOMAIN types }

\* the two nodes of the link of a flow: the smaller address string first
IPPair(f) ==
  LET srcIP == IPString(f.SrcAddr)
      dstIP == IPString(f.DstAddr)
  IN IF StrLess(srcIP, dstIP) THEN <<srcIP, dstIP>> ELSE <<dstIP, srcIP>>

\* Handlers.aggregateIPtoIP: what it may return for the store content fl
aggregateIPtoIP(fl, filter, topN, cutoffTime) ==
  UNION {
    LET fs == SinceCutoff(q, cutoffTime, 1)
        keys == { IPPair(fs[i]) : i \in 1..Len(fs) }
        LinksOf(k) == { SankeyLink(k[1], k[2], fs, LAMBDA f : IPPair(f) = k, p) :
                          p \in DominantProtocols(fs, LAMBDA f : IPPair(f) = k) }
    IN { SankeyData(SankeyNodes(NodeTypes(TopN(s, topN), 1, EmptyMap, "source", "target")),
                    Range(TopN(s, topN))) :
           s \in UNION { RankedBy(ls, LAMBDA l : l.Value) : ls \in LinkSets(keys, LinksOf) } }
    : q \in QueryResults(fl, [filter |-> filter, sortBy |-> SortByBytes,
                              ascending |-> FALSE, limit |-> 0]) }

\* the service a flow is counted under: of its destination port, else of its
\* source port, else the destination port's number
ServiceOf(f) ==
  IF GetServiceName(f.DstPort, f.Protocol) # <<>> THEN GetServiceName(f.DstPort, f.Protocol)
  ELSE IF GetServiceName(f.SrcPort, f.Protocol) # <<>>
  THEN GetServiceName(f.SrcPort, f.Protocol)
  ELSE Dec(f.DstPort)

\* Handlers.aggregateIPtoService
aggregateIPtoService(fl, filter, topN, cutoffTime) ==
  UNION {
    LET fs == SinceCutoff(q, cutoffTime, 1)
        KeyOf(f) == <<IPString(f.SrcAddr), ServiceOf(f)>>
        keys == { KeyOf(fs[i]) : i \in 1..Len(fs) }
        LinksOf(k) == { SankeyLink(k[1], k[2], fs, LAMBDA f : KeyOf(f) = k, p) :
                          p \in DominantProtocols(fs, LAMBDA f : KeyOf(f) = k) }
    IN { SankeyData(SankeyNodes(NodeTypes(TopN(s, topN), 1, EmptyMap, "source", "service")),
                    Range(TopN(s, topN))) :
           s \in UNION { RankedBy(ls, LAMBDA l : l.Value) : ls \in LinkSets(keys, LinksOf) } }
    : q \in QueryResults(fl, [filter |-> filter, sortBy |-> SortByBytes,
                              ascending |-> FALSE, limit |-> 0]) }

\* net.IP.To4: the four bytes of an IPv4 address in either form, else nil
To4(ip) ==
  IF Len(ip) = 4 THEN ip
  ELSE IF Len(ip) = 16 /\ SubSeq(ip, 1, 10) = Zeros(10) /\ ip[11] = 255 /\ ip[12] = 255
  THEN SubSeq(ip, 13, 16)
  ELSE <<>>

\* isPrivateIP
isPrivateIP(ip) ==
  IF Len(ip) = 0 THEN FALSE
  ELSE IF To4(ip) = <<>>
  THEN \/ ip[1] = 253
       \/ ip[1] = 254 /\ Len(ip) >= 2 /\ (ip[2] \div 64) = 2
  ELSE \/ To4(ip)[1] = 10
       \/ To4(ip)[1] = 172 /\ To4(ip)[2] >= 16 /\ To4(ip)[2] <= 31
       \/ To4(ip)[1] = 192 /\ To4(ip)[2] = 168

\* ifacePublicIPs[ifID] of guessWANFromFlows: the public addresses the flows
\* show behind the interface
ifacePublicIPs(fs, ifID) ==
  { IPString(fs[i].SrcAddr) : i \in { j \in 1..Len(fs) :
      ~isPrivateIP(fs[j].SrcAddr) /\ fs[j].InputIf > 0 /\ fs[j].InputIf = ifID } } \cup
  { IPString(fs[i].DstAddr) : i \in { j \in 1..Len(fs) :
      ~isPrivateIP(fs[j].DstAddr) /\ fs[j].OutputIf > 0 /\ fs[j].OutputIf = ifID } }

\* the interfaces the flows name
Interfaces(fs) ==
  { fs[i].InputIf : i \in 1..Len(fs) } \cup { fs[i].OutputIf : i \in 1..Len(fs) }

\* a guess that takes any interface a public address was seen behind
guessWANAny(fs) ==
  LET ifs == { i \in Interfaces(fs) : ifacePublicIPs(fs, i) # {} }
  IN IF ifs = {} THEN {0} ELSE ifs

\* guessWANFromFlows: what the loop over the map may end with, the first
\* interface it meets that has the largest count, or 0 when the map is empty
guessWANFromFlows(fs) ==
  LET ifs == { i \in Interfaces(fs) : ifacePublicIPs(fs, i) # {} }
  IN IF ifs = {} THEN {0}
     ELSE { i \in ifs : \A j \in ifs :
              Cardinality(ifacePublicIPs(fs, j)) <= Cardinality(ifacePublicIPs(fs, i)) }

\* the flows of one exporter, "" for all
RECURSIVE OfExporter(_, _, _)
OfExporter(fs, exporter, i) ==
  IF i > Len(fs) THEN <<>>
  ELSE (IF exporter = <<>> \/ IPString(fs[i].ExporterIP) = exporter THEN <<fs[i]>> ELSE <<>>) \o
       OfExporter(fs, exporter, i + 1)

\* processFlows: the connectionKey a flow is counted under, if any; the
\* exporter is kept as the address it prints
ConnectionKeys(f, targetIF, leftIF) ==
  IF f.InputIf = 0 /\ f.OutputIf = 0 THEN {}
  ELSE IF f.OutputIf = targetIF /\ f.InputIf # targetIF /\ f.InputIf > 0
  THEN IF leftIF = 0 \/ f.InputIf = leftIF
       THEN { [leftIP |-> IPString(f.SrcAddr), rightIP |-> IPString(f.DstAddr),
               leftIf |-> f.InputIf, rightIf |-> targetIF, exporter |-> f.ExporterIP] }
       ELSE {}
  ELSE IF f.InputIf = targetIF /\ f.OutputIf # targetIF /\ f.OutputIf > 0
  THEN IF leftIF = 0 \/ f.OutputIf = leftIF
       THEN { [leftIP |-> IPString(f.DstAddr), rightIP |-> IPString(f.SrcAddr),
               leftIf |-> f.OutputIf, rightIf |-> targetIF, exporter |-> f.ExporterIP] }
       ELSE {}
  ELSE {}

\* processFlows: the connections of a flow list and their sums
processFlows(flowList, targetIF, leftIF) ==
  LET keys == UNION { ConnectionKeys(flowList[i], targetIF, leftIF) : i \in 1..Len(flowList) }
  IN [k \in keys |->
        [bytes |-> SumWhere(flowList, LAMBDA f : k \in ConnectionKeys(f, targetIF, leftIF),
                            LAMBDA f : f.Bytes),
         packets |-> SumWhere(flowList, LAMBDA f : k \in ConnectionKeys(f, targetIF, leftIF),
                              LAMBDA f : f.Packets),
         flows |-> CountWhere(flowList, LAMBDA f : k \in ConnectionKeys(f, targetIF, leftIF)),
         inferred |-> FALSE]]

\* the map after a second processFlows added to it
AddConnections(a, b) ==
  [k \in DOMAIN a \cup DOMAIN b |->
     IF k \in DOMAIN a /\ k \in DOMAIN b
     THEN [bytes |-> a[k].bytes + b[k].bytes, packets |-> a[k].packets + b[k].packets,
           flows |-> a[k].flows + b[k].flows, inferred |-> a[k].inferred]
     ELSE IF k \in DOMAIN a THEN a[k] ELSE b[k]]

\* makeIfNode
makeIfNode(ifID, exporterIP, crossExporter) ==
  IF crossExporter
  THEN (IF Len(exporterIP) = 4 THEN Dec(exporterIP[3]) \o <<".">> \o Dec(exporterIP[4])
        ELSE IPString(exporterIP)) \o <<":", "I", "F">> \o Dec(ifID)
  ELSE <<"I", "F", ":">> \o Dec(ifID)

\* isIfNode
isIfNode(id) ==
  Len(id) >= 3 /\ (SubSeq(id, 1, 3) = <<"I", "F", ":">> \/ Contains(id, <<":", "I", "F">>))

\* Sscanf's %d on the head of s: the digits it starts with, 0 when none
RECURSIVE ScanInt(_, _)
ScanInt(s, acc) ==
  IF Len(s) = 0 \/ ~IsDigit(s[1]) THEN acc ELSE ScanInt(Tail(s), acc * 10 + DigitOf(s[1]))

\* extractIfID
extractIfID(id) ==
  IF HasAt(id, 0, <<"I", "F", ":">>) THEN ScanInt(Slice(id, 3, Len(id)), 0)
  ELSE IF Index(id, <<":", "I", "F">>) >= 0
  THEN ScanInt(Slice(id, Index(id, <<":", "I", "F">>) + 3, Len(id)), 0)
  ELSE 0

\* the three links of a ranked connection, as from and to
ConnLinks(c, crossExporter) ==
  LET leftNode == makeIfNode(c.key.leftIf, c.key.exporter, crossExporter)
      rightNode == makeIfNode(c.key.rightIf, c.key.exporter, crossExporter)
  IN << <<c.key.leftIP, leftNode>>, <<leftNode, rightNode>>, <<rightNode, c.key.rightIP>> >>

\* what the ranked connections add to the link from and to: the sum of Val
\* over them, once for each of their three links that is this link
LinkSum(ranked, k, crossExporter, Val(_)) ==
  SumSeq([i \in 1..Len(ranked) |->
            Val(ranked[i]) *
            Cardinality({ j \in 1..3 : ConnLinks(ranked[i], crossExporter)[j] = k })], 1)

\* the linkMap of the ranked connections
FirewallLinks(ranked, crossExporter) ==
  { [Source |-> k[1], Target |-> k[2],
     Value |-> LinkSum(ranked, k, crossExporter, LAMBDA c : c.stats.bytes),
     Packets |-> LinkSum(ranked, k, crossExporter, LAMBDA c : c.stats.packets),
     Protocol |-> <<>>,
     Flows |-> LinkSum(ranked, k, crossExporter, LAMBDA c : c.stats.flows),
     Inferred |-> FALSE] :
    k \in UNION { Range(ConnLinks(ranked[i], crossExporter)) : i \in 1..Len(ranked) } }

\* leftIPtoIF[id], rightIPtoIF[id]: the interface of the last ranked
\* connection with the address, 0 without one
LastIf(ranked, Addr(_), If(_)) ==
  LET hits == { i \in 1..Len(ranked) : Addr(ranked[i].key) }
  IN IF hits = {} THEN 0
     ELSE If(ranked[CHOOSE i \in hits : \A j \in hits : j <= i].key)

\* the types the nodeSet may give the ids of the links: an interface node
\* is a right one when an interface node links to it; an address is typed by
\* the link of the slice it is first met in, and the slice comes out of the
\* linkMap in any order (a link holds one address at most, so the addresses
\* are typed independently)
FirewallNodeTypes(links) ==
  LET ids == { l.Source : l \in links } \cup { l.Target : l \in links }
      rightIfNodes == { l.Target : l \in { m \in links : isIfNode(m.Target) /\ isIfNode(m.Source) } }
      sources == { l.Source : l \in links }
      targets == { l.Target : l \in links }
      either == { id \in sources \cap targets : ~isIfNode(id) }
  IN { [id \in ids |->
          IF isIfNode(id) THEN (IF id \in rightIfNodes THEN "right-if" ELSE "left-if")
          ELSE IF id \in either THEN (IF id \in lefts THEN "left" ELSE "right")
          ELSE IF id \in sources THEN "left" ELSE "right"] : lefts \in SUBSET either }

\* the nodes of a firewall response
FirewallNodes(types, ranked) ==
  { [ID |-> id, Type |-> types[id], Label |-> id,
     SortKey |-> CASE types[id] = "left" ->
                        LastIf(ranked, LAMBDA k : k.leftIP = id, LAMBDA k : k.leftIf)
                   [] types[id] = "right" ->
                        LastIf(ranked, LAMBDA k : k.rightIP = id, LAMBDA k : k.rightIf)
                   [] OTHER -> extractIfID(id)] : id \in DOMAIN types }

\* Handlers.aggregateFirewall: what it may return for the store content fl
aggregateFirewall(fl, filter, topN, cutoffTime, leftIF, rightIF, leftExporter, rightExporter) ==
  UNION {
    LET fs == SinceCutoff(q, cutoffTime, 1)
        crossExporter == leftExporter # <<>> /\ rightExporter # <<>> /\
                         leftExporter # rightExporter
        leftFlows == OfExporter(fs, leftExporter, 1)
        rightFlows == IF crossExporter THEN OfExporter(fs, rightExporter, 1) ELSE leftFlows
    IN UNION {
         LET connections ==
               IF crossExporter
               THEN AddConnections(processFlows(leftFlows, w[2], leftIF),
                                   processFlows(rightFlows, w[1], leftIF))
               ELSE processFlows(leftFlows, w[1], leftIF)
             conns == { [key |-> k, stats |-> connections[k]] : k \in DOMAIN connections }
         IN UNION {
              { SankeyData(FirewallNodes(t, TopN(r, topN)),
                           FirewallLinks(TopN(r, topN), crossExporter)) :
                  t \in FirewallNodeTypes(FirewallLinks(TopN(r, topN), crossExporter)) }
              : r \in RankedBy(conns, LAMBDA c : c.stats.bytes) }
         : w \in (IF rightIF = 0 THEN guessWANFromFlows(rightFlows) ELSE {rightIF}) \X
                 (IF crossExporter THEN guessWANFromFlows(leftFlows) ELSE {0}) }
    : q \in QueryResults(fl, [filter |-> filter, sortBy |-> SortByBytes,
                              ascending |-> FALSE, limit |-> 0]) }

\* FlowStore.GetFlowCount, FlowStore.GetFilteredCount
GetFlowCount(fl) == Len(fl)
GetFilteredCount(fl, filter) ==
  IF IsEmpty(filter) THEN GetFlowCount(fl) ELSE CountWhere(fl, LAMBDA f : Matches(filter, f))

\* FlowVersion.String
VersionString(v) ==
  CASE v = NetFlowV5 -> <<"N", "e", "t", "F", "l", "o", "w", " ", "v", "5">>
    [] v = NetFlowV9 -> <<"N", "e", "t", "F", "l", "o", "w", " ", "v", "9">>
    [] v = IPFIX -> <<"I", "P", "F", "I", "X">>
    [] OTHER -> <<"U", "n", "k", "n", "o", "w", "n", "(">> \o Dec(v) \o <<")">>

\* FlowToResponse
FlowToResponse(f, serviceName) ==
  [SrcAddr |-> IPString(f.SrcAddr), DstAddr |-> IPString(f.DstAddr),
   SrcPort |-> f.SrcPort, DstPort |-> f.DstPort, Protocol |-> ProtocolName(f),
   Bytes |-> f.Bytes, Packets |-> f.Packets, Service |-> serviceName,
   ReceivedAt |-> f.ReceivedAt, Version |-> VersionString(f.Version)]

\* writeError
writeError(code, message, details) ==
  Response(code, message, details, <<>>, 0, 0, NoData, "", <<>>)

\* the filter of HandleSankey, narrowed to the IP version asked for
combinedFilter(filterStr, ipVersion) ==
  LET narrow(v) == IF filterStr # <<>>
                   THEN <<"(">> \o filterStr \o <<")", " ", "&", "&", " ", "v", "e", "r", "s", "i", "o", "n", "=">> \o <<v>>
                   ELSE <<"v", "e", "r", "s", "i", "o", "n", "=">> \o <<v>>
  IN IF ipVersion = "v4" THEN narrow("4")
     ELSE IF ipVersion = "v6" THEN narrow("6")
     ELSE filterStr

\* Handlers.HandleSankey: the responses it may write for the store content fl
SankeyResponses(req, fl, t) ==
  LET mode == IF req.mode = "" THEN "ip-to-ip" ELSE req.mode
      topN == IF req.topN > 0 THEN req.topN ELSE 50
      cutoffTime == CutoffTime(req.timeRange, t)
  IN UNION {
     IF combined # <<>> /\ ~IsValid(f)
     THEN { writeError(400, "Invalid filter", f.Error) }
     ELSE UNION {
          CASE mode \in {"ip-to-ip", "ip-to-service", "firewall"} ->
                 { Response(200, "", <<>>, <<>>, 0, 0, data, mode, req.filter) :
                     data \in CASE mode = "ip-to-ip" ->
                                     aggregateIPtoIP(fl, filter, topN, cutoffTime)
                                [] mode = "ip-to-service" ->
                                     aggregateIPtoService(fl, filter, topN, cutoffTime)
                                [] mode = "firewall" ->
                                     aggregateFirewall(fl, filter, topN, cutoffTime, req.leftIF,
                                                       req.rightIF, req.leftExporter,
                                                       req.rightExporter) }
            [] OTHER ->
                 { writeError(400, "Invalid mode",
                              <<"S", "u", "p", "p", "o", "r", "t", "e", "d", " ", "m", "o", "d", "e", "s", ":", " ", "i", "p", "-", "t", "o", "-", "i", "p", ",", " ", "i", "p", "-", "t", "o", "-", "s", "e", "r", "v", "i", "c", "e", ",", " ", "f", "i", "r", "e", "w", "a", "l", "l">>) }
          : filter \in {IF combined # <<>> THEN f ELSE NilFilter} }
     : combined \in {combinedFilter(req.filter, req.ipVersion)},
       f \in {ParseFilter(combinedFilter(req.filter, req.ipVersion))} }

\* the sort key a sort parameter names
SortOf(s) ==
  CASE s = "bytes" -> SortByBytes
    [] s = "packets" -> SortByPackets
    [] s = "proto" -> SortByProtocol
    [] OTHER -> SortByTime

\* the service FlowToResponse is handed
ServiceName(f) ==
  IF GetServiceName(f.DstPort, f.Protocol) # <<>> THEN GetServiceName(f.DstPort, f.Protocol)
  ELSE GetServiceName(f.SrcPort, f.Protocol)

\* Handlers.HandleFlows: the responses it may write for the store content fl
FlowsResponses(req, fl) ==
  LET limit == IF req.limit > 0 THEN req.limit ELSE 100
      f == ParseFilter(req.filter)
      filter == IF req.filter # <<>> THEN f ELSE NilFilter
  IN IF req.filter # <<>> /\ ~IsValid(f)
     THEN { writeError(400, "Invalid filter", f.Error) }
     ELSE { Response(200, "", <<>>, [i \in 1..Len(q) |-> FlowToResponse(q[i], ServiceName(q[i]))],
                     GetFlowCount(fl), GetFilteredCount(fl, filter), NoData, "", req.filter) :
              q \in QueryResults(fl, [filter |-> filter, sortBy |-> SortOf(req.sort),
                                      ascending |-> req.asc, limit |-> limit]) }

\* the requests a client sends
ExporterNames == { <<>>, IPString(ExporterA), IPString(ExporterB) }
Requests ==
  { SankeyRequest(mode, <<>>, "", topN, 0, 0, 0, <<>>, <<>>) :
      mode \in {"", "ip-to-service", "firewall"}, topN \in {0, 1, 2} } \cup
  { SankeyRequest(mode, filter, "", 0, 0, 0, 0, <<>>, <<>>) :
      mode \in {"", "ip-to-service", "firewall"},
      filter \in { <<"p", "r", "o", "t", "o", "=", "t", "c", "p">>, <<"s", "r", "c", "=">> } } \cup
  { SankeyRequest("treemap", <<>>, "", 0, 0, 0, 0, <<>>, <<>>),
    SankeyRequest("treemap", <<"b", "o", "g", "u", "s", "=", "1">>, "", 0, 0, 0, 0, <<>>, <<>>),
    SankeyRequest("", <<"p", "o", "r", "t", "=", "5", "3">>, "v4", 0, 0, 0, 0, <<>>, <<>>),
    SankeyRequest("", <<>>, "v6", 0, 0, 0, 0, <<>>, <<>>),
    SankeyRequest("", <<"p", "o", "r", "t", "=", "8", "0", " ", "|", "|">>, "v4", 0, 0, 0, 0, <<>>, <<>>),
    SankeyRequest("", <<>>, "", 0, 1, 0, 0, <<>>, <<>>),
    SankeyRequest("firewall", <<>>, "", 0, 1, 1, 3, <<>>, <<>>),
    SankeyRequest("firewall", <<>>, "", 0, 0, 0, 4, IPString(ExporterB), <<>>),
    SankeyRequest("firewall", <<>>, "", 0, 0, 0, 0, IPString(ExporterA), IPString(ExporterB)) } \cup
  { FlowsRequest(filter, 0, "", FALSE) :
      filter \in { <<>>, <<"p", "o", "r", "t", "=", "5", "3">>, <<"(", "p", "o", "r", "t", "=", "5", "3">>, <<"p", "o", "r", "t", "=", "9", "9", "9", "9", "9">> } } \cup
  { FlowsRequest(<<>>, 1, "bytes", TRUE),
    FlowsRequest(<<"p", "r", "o", "t", "o", "=", "t", "c", "p">>, 1, "", FALSE) }

\* Handlers.HandleSankey
HandleSankey(req) ==
  /\ request = NoRequest
  /\ req.path = "/api/v1/sankey"
  /\ request' = req
  /\ \E resp \in SankeyResponses(req, flows, now) : response' = resp
  /\ UNCHANGED <<matched, queried, roundTrip, passed, storeVars, parserVars, pipeVars, concVars>>

\* Handlers.HandleFlows
HandleFlows(req) ==
  /\ request = NoRequest
  /\ req.path = "/api/v1/flows"
  /\ request' = req
  /\ \E resp \in FlowsResponses(req, flows) : response' = resp
  /\ UNCHANGED <<matched, queried, roundTrip, passed, storeVars, parserVars, pipeVars, concVars>>


\* the store of the API server: it holds every flow it is sent
ApiConfigs == { [maxFlows |-> MaxApiFlows, TopKPercent |-> 50, LRUWindow |-> 1] }

\* the ingest goroutine stores a flow of the traffic: the flows arrive in the
\* order they were sent in, and any of them may be lost on the way
Store(f) ==
  /\ request = NoRequest
  /\ Len(flows) < MaxApiFlows
  /\ \A i \in 1..Len(flows) : SentAt(flows[i]) < SentAt(f)
  /\ Add(<<f>>)
  /\ UNCHANGED otherVars

\* the server has run for a while when the traffic arrives
InitApi == StoreInitAt(ApiConfigs, 2) /\ ParserInit /\ PipeInit /\ ConcInit /\ ApiInit

\* the traffic is stored, then one request is followed: a handler leaves the
\* store as it is, so the response to a later request depends on the store
\* content only
NextApi ==
  \/ \E f \in ApiFlows : Store(f)
  \/ \E req \in Requests : HandleSankey(req)
  \/ \E req \in Requests : HandleFlows(req)

SpecApi == InitApi /\ [][NextApi]_vars

\* the filter string a request has parsed
RequestFilter(req) ==
  IF req.path = "/api/v1/sankey" THEN combinedFilter(req.filter, req.ipVersion) ELSE req.filter

\* C14: a filter that ParseFilter recorded an error for is invalid, has no
\* root and matches every flow; /api/v1/sankey and /api/v1/flows answer a
\* request with such a filter with status 400 and details that contain
\* "invalid", and with no flow, node or link
C14_InvalidFilter ==
  /\ \A s \in FilterStrings :
       LET f == ParseFilter(s)
       IN f.Error # <<>> =>
            /\ ~IsValid(f)
            /\ f.Root = NilRoot
            /\ \A flow \in ApiFlows : Matches(f, flow)
  /\ request # NoRequest /\ ParseFilter(RequestFilter(request)).Error # <<>> =>
       /\ response.status = 400
       /\ Contains(response.details, <<"i", "n", "v", "a", "l", "i", "d">>)
       /\ response.flows = <<>>
       /\ response.nodes = {}
       /\ response.links = {}

\* a request for the graph of a stored flow with the filter "src=" was answered
C14_Witness ==
  /\ request.path = "/api/v1/sankey"
  /\ request.filter = <<"s", "r", "c", "=">>
  /\ ParseFilter(request.filter).Error # <<>>
  /\ Len(flows) > 0
  /\ response.status = 400

\* ---------------------------------------------------------------------------
\* The filter language applied to flows
\* ---------------------------------------------------------------------------

\* valid conditions: a port, a network, a negated protocol, an address part,
\* a service by its name, an interface, an IP version
Conditions ==
  { <<"p", "o", "r", "t", "=", "5", "3">>,
    <<"s", "r", "c", "=", "1", "0", ".", "0", ".", "0", ".", "0", "/", "8">>,
    <<"p", "r", "o", "t", "o", "!", "=", "t", "c", "p">>,
    <<"i", "p", "=", "8", ".", "8">>,
    <<"d", "n", "s">>,
    <<"i", "f", "=", "3">>,
    <<"v", "e", "r", "s", "i", "o", "n", "=", "4">> }

\* "!(A && B)" and "(!A) || (!B)"
NotOfAnd(A, B) == <<"!", "(">> \o A \o <<" ", "&", "&", " ">> \o B \o <<")">>
OrOfNots(A, B) == <<"(", "!">> \o A \o <<")", " ", "|", "|", " ", "(", "!">> \o B \o <<")">>

\* filter texts as users type them: blanks around and inside, upper case,
\* keywords, commas, groups
TypedFilters ==
  { <<" ", " ", "p", "o", "r", "t", "=", "5", "3", " ", " ">>,
    <<"p", "o", "r", "t", "=", "5", "3", " ", " ", " ", "a", "n", "d", "\t", "p", "r", "o", "t", "o", "=", "u", "d", "p">>,
    <<"P", "O", "R", "T", "=", "5", "3", " ", "O", "R", " ", "P", "r", "o", "t", "o", "=", "T", "C", "P">>,
    <<"(", "(", " ", "s", "r", "c", "=", "1", "0", ".", "0", ".", "0", ".", "1", " ", ")", ")">>,
    <<" ", "n", "o", "t", " ", "d", "n", "s">>,
    <<"s", "r", "c", "=", "1", "0", ".", "0", ".", "0", ".", "1", ",", "d", "p", "o", "r", "t", "=", "5", "3">>,
    <<"!", "(", "p", "o", "r", "t", "=", "5", "3", " ", "|", "|", " ", "p", "r", "o", "t", "o", "=", "t", "c", "p", ")", " ", "i", "f", "=", "1">>,
    <<"p", "o", "r", "t", "=", "5", "3", " ", "&", "&">>,
    <<" ", "\t", " ">> }

\* values of an address condition: a substring of a dotted address, a CIDR
\* block
AddressValues ==
  { <<"8", ".", "8">>,
    <<"1", "0", ".", "0", ".", "0", ".", "0", "/", "8">>,
    <<"1", "0", ".", "0", ".", "0", ".", "2">> }

\* the filters the suggestion list offers for an address: ip=V and host=V
IpFilter(V) == <<"i", "p", "=">> \o V
HostFilter(V) == <<"h", "o", "s", "t", "=">> \o V
AddressFilters == { IpFilter(V) : V \in AddressValues } \cup { HostFilter(V) : V \in AddressValues }

\* the conditions a, b, c of the filters "a || b c" and "!a b"
Operands ==
  { <<"p", "o", "r", "t", "=", "5", "3">>,
    <<"p", "r", "o", "t", "o", "!", "=", "t", "c", "p">>,
    <<"s", "r", "c", "=", "1", "0", ".", "0", ".", "0", ".", "0", "/", "8">>,
    <<"d", "n", "s">> }

\* the ways to write AND: juxtaposition, &&, the keyword, the comma
AndSigns == { <<" ">>, <<" ", "&", "&", " ">>, <<" ", "a", "n", "d", " ">>, <<",">> }

\* "a || b c" with the AND written in one of its ways, and "!a b"
OrThenAnd(a, b, c, sign) == a \o <<" ", "|", "|", " ">> \o b \o sign \o c
NotThen(a, b) == <<"!">> \o a \o <<" ">> \o b
PrecedenceFilters ==
  { OrThenAnd(a, b, c, sign) : a \in Operands, b \in Operands, c \in Operands, sign \in AndSigns }
    \cup { NotThen(a, b) : a \in Operands, b \in Operands }

\* conditions the parser has to reject: an unknown field, an empty value
\* (with = and with !=), a CIDR with too long a prefix and one with a bad
\* address, a port above 65535, a port that is no number, a negative
\* interface, an interface above 65535, a protocol by its number
BadConditions ==
  { <<"b", "o", "g", "u", "s", "=", "1">>,
    <<"p", "o", "r", "t", "=">>,
    <<"s", "r", "c", "!", "=">>,
    <<"s", "r", "c", "=", "1", "0", ".", "0", ".", "0", ".", "0", "/", "3", "3">>,
    <<"i", "p", "=", "1", "0", ".", "0", ".", "0", "/", "8">>,
    <<"d", "p", "o", "r", "t", "=", "6", "5", "5", "3", "6">>,
    <<"p", "o", "r", "t", "=", "5", "x">>,
    <<"i", "f", "=", "-", "1">>,
    <<"o", "u", "t", "i", "f", "=", "7", "0", "0", "0", "0">>,
    <<"p", "r", "o", "t", "o", "=", "6">> }

\* the places of a condition c in an expression, next to the valid condition
\* port=53
Places(c) ==
  << c,
     <<"(">> \o c \o <<")">>,
     <<"!">> \o c,
     <<"n", "o", "t", " ">> \o c,
     <<"p", "o", "r", "t", "=", "5", "3", " ", "&", "&", " ">> \o c,
     c \o <<" ", "&", "&", " ", "p", "o", "r", "t", "=", "5", "3">>,
     <<"p", "o", "r", "t", "=", "5", "3", " ">> \o c,
     <<"p", "o", "r", "t", "=", "5", "3", " ", "|", "|", " ">> \o c,
     c \o <<" ", "|", "|", " ", "p", "o", "r", "t", "=", "5", "3">>,
     <<"p", "o", "r", "t", "=", "5", "3", " ", "|", "|", " ", "!", "(", "t", "c", "p", " ", "(">> \o c \o <<")", ")">> >>

RejectedFilters == { Places(c)[i] : c \in BadConditions, i \in 1..Len(Places(<<>>)) }

FilterTexts ==
  PrecedenceFilters \cup RejectedFilters \cup
  TypedFilters \cup { NotOfAnd(A, B) : A \in Conditions, B \in Conditions }
               \cup { OrOfNots(A, B) : A \in Conditions, B \in Conditions }
               \cup AddressFilters

\* a viewer parses a filter text and applies the filter to a flow; a
\* behaviour follows one such application
ApplyFilter(text, flow) ==
  /\ matched = NoMatch
  /\ \E f \in {ParseFilter(text)} : matched' = Matched(text, f, flow)
  /\ UNCHANGED <<request, response, queried, roundTrip, passed, storeVars, parserVars, pipeVars, concVars>>

InitFilter == StoreInit(ApiConfigs) /\ ParserInit /\ PipeInit /\ ConcInit /\ ApiInit

NextFilter == \E text \in FilterTexts, flow \in ApiFlows : ApplyFilter(text, flow)

SpecFilter == InitFilter /\ [][NextFilter]_vars

\* C15: the filter parsed from "!(A && B)" and the filter parsed from
\* "(!A) || (!B)" are both valid and return the same for every flow, for all
\* valid conditions A and B
C15_DeMorgan ==
  \A A \in Conditions, B \in Conditions :
    matched.text = NotOfAnd(A, B) =>
      /\ matched.valid
      /\ IsValid(ParseFilter(OrOfNots(A, B)))
      /\ matched.ret = Matches(ParseFilter(OrOfNots(A, B)), matched.flow)

\* "!(port=53 && src=10.0.0.0/8)" was applied to a flow that port=53 holds
\* for and to which src=10.0.0.0/8 does not
C15_Witness ==
  /\ matched.text = NotOfAnd(<<"p", "o", "r", "t", "=", "5", "3">>, <<"s", "r", "c", "=", "1", "0", ".", "0", ".", "0", ".", "0", "/", "8">>)
  /\ matched.flow.SrcPort = 53
  /\ matched.valid
  /\ matched.ret

\* C16: for a valid filter text s, ParseFilter(s).String() parses to a valid
\* filter whose String() is the same text and which returns for every flow
\* what the filter parsed from s returns
C16_RoundTrip ==
  matched.valid =>
    LET again == ParseFilter(matched.raw)
    IN /\ String(again) = matched.raw
       /\ IsValid(again)
       /\ Matches(again, matched.flow) = matched.ret

\* a text typed with blanks around it was parsed, is valid, and its filter
\* holds for the flow
C16_Witness ==
  /\ matched.text \in TypedFilters
  /\ matched.raw # <<>>
  /\ matched.raw # matched.text
  /\ matched.valid
  /\ matched.ret

\* ---------------------------------------------------------------------------
\* The display: flows merged by their 5-tuple
\* ---------------------------------------------------------------------------

\* a merge that keeps the first export of a connection as it is
AggregateKeepFirst(existing, flow) == existing

\* QueryAggregatedFlows, the branch for a key the map holds: the sums, the
\* earliest start, the latest end, receipt and access
Aggregate(existing, flow) ==
  [existing EXCEPT
     !.Bytes = @ + flow.Bytes,
     !.Packets = @ + flow.Packets,
     !.StartTime = IF flow.StartTime < @ THEN flow.StartTime ELSE @,
     !.EndTime = IF flow.EndTime > @ THEN flow.EndTime ELSE @,
     !.ReceivedAt = IF flow.ReceivedAt > @ THEN flow.ReceivedAt ELSE @,
     !.LastAccessed = IF flow.LastAccessed > @ THEN flow.LastAccessed ELSE @]

\* QueryAggregatedFlows, the loop over fs.flows: the flowMap after the
\* flows from the i-th on
RECURSIVE flowMap(_, _, _, _)
flowMap(fl, filter, i, acc) ==
  IF i > Len(fl) THEN acc
  ELSE IF ~IsEmpty(filter) /\ ~Matches(filter, fl[i]) THEN flowMap(fl, filter, i + 1, acc)
  ELSE flowMap(fl, filter, i + 1,
               IF FlowKey(fl[i]) \in DOMAIN acc
               THEN [acc EXCEPT ![FlowKey(fl[i])] = Aggregate(@, fl[i])]
               ELSE MapPut(acc, FlowKey(fl[i]), fl[i]))

\* FlowStore.QueryAggregatedFlows: what it may return for the store content
\* fl; the map yields its flows in any order and Sorted arranges them in
\* every way that is in key order
QueryAggregatedFlows(fl, args) ==
  LET merged == flowMap(fl, args.filter, 1, EmptyMap)
      unsorted == CHOOSE s \in Orderings({ merged[k] : k \in DOMAIN merged }) : TRUE
  IN { Limit(s, args.limit) : s \in Sorted(unsorted, args.sortBy, args.ascending) }

\* exports the display merges: two exports of one connection, its answer, and
\* another connection
DisplayFlows ==
  { ApiFlow(<<10, 0, 0, 1>>, 1234, <<8, 8, 8, 8>>, 53, 17, 5, 1, 3, ExporterA, 1),
    ApiFlow(<<10, 0, 0, 1>>, 1234, <<8, 8, 8, 8>>, 53, 17, 3, 1, 3, ExporterA, 2),
    ApiFlow(<<8, 8, 8, 8>>, 53, <<10, 0, 0, 1>>, 1234, 17, 4, 3, 1, ExporterA, 2),
    ApiFlow(<<10, 0, 0, 2>>, 4321, <<1, 1, 1, 1>>, 443, 6, 5, 2, 3, ExporterB, 2) }

\* the calls of the display
DisplayArgs ==
  { [filter |-> ParseFilter(text), sortBy |-> sa[1], ascending |-> sa[2], limit |-> limit] :
      text \in { <<>>, <<"d", "p", "o", "r", "t", "=", "5", "3">>, <<"i", "p", "=", "1", "0", ".", "0", ".", "0", ".", "1">> },
      sa \in { <<SortByBytes, FALSE>>, <<SortByTime, TRUE>> },
      limit \in {0, 1} }

\* the ingest goroutine stores an export
StoreExport(f) ==
  /\ Len(flows) < MaxApiFlows
  /\ Add(<<f>>)
  /\ UNCHANGED otherVars

\* the display asks for the flows, plain and merged
Display(args) ==
  /\ \E plain \in QueryResults(flows, args), aggregated \in QueryAggregatedFlows(flows, args) :
       queried' = Queried(args, plain, aggregated)
  /\ UNCHANGED <<request, response, matched, roundTrip, passed, storeVars, parserVars, pipeVars, concVars>>

InitDisplay == StoreInitAt(ApiConfigs, 2) /\ ParserInit /\ PipeInit /\ ConcInit /\ ApiInit

NextDisplay ==
  \/ \E f \in DisplayFlows : StoreExport(f)
  \/ \E args \in DisplayArgs : Display(args)

SpecDisplay == InitDisplay /\ [][NextDisplay]_vars

\* C17: with limit 0, the Bytes of the flows QueryAggregatedFlows returns
\* add up to the Bytes of the flows Query returns for the same store content
\* and filter, and so do the Packets
C17_AggregationPreservesBytes ==
  queried.args.limit = 0 =>
    /\ SumWhere(queried.aggregated, LAMBDA f : TRUE, LAMBDA f : f.Bytes) =
       SumWhere(queried.plain, LAMBDA f : TRUE, LAMBDA f : f.Bytes)
    /\ SumWhere(queried.aggregated, LAMBDA f : TRUE, LAMBDA f : f.Packets) =
       SumWhere(queried.plain, LAMBDA f : TRUE, LAMBDA f : f.Packets)

\* three exports matched the filter and were merged into two flows
C17_Witness ==
  /\ queried.args.limit = 0
  /\ ~IsEmpty(queried.args.filter)
  /\ Len(queried.plain) = 3
  /\ Len(queried.aggregated) = 2
  /\ \E i \in 1..2 : queried.aggregated[i].Bytes = 8

\* the links of a response, each as its source id and target id
LinkIds(resp) == { <<l.Source, l.Target>> : l \in resp.links }

\* the modes of /api/v1/sankey
Modes == {"ip-to-ip", "ip-to-service", "firewall"}

\* C18: for the store content as it is and each mode, every link of a
\* response computed with topN = n is a link of every response computed
\* with a larger topN
C18_TopNMonotone ==
  \A mode \in Modes, n \in 1..2, m \in 1..2 :
    n < m =>
      \A small \in SankeyResponses(SankeyRequest(mode, <<>>, "", n, 0, 0, 0, <<>>, <<>>), flows, now),
         large \in SankeyResponses(SankeyRequest(mode, <<>>, "", m, 0, 0, 0, <<>>, <<>>), flows, now) :
        LinkIds(small) \subseteq LinkIds(large)

\* a public address: IPv4 outside 10/8, 172.16/12 and 192.168/16, IPv6
\* outside fd00::/8 and fe80::/10
Public(ip) ==
  /\ ~(Len(ip) = 4 /\ (\/ ip[1] = 10
                       \/ ip[1] = 172 /\ ip[2] \in 16..31
                       \/ ip[1] = 192 /\ ip[2] = 168))
  /\ ~(Len(ip) = 16 /\ (ip[1] = 253 \/ (ip[1] = 254 /\ ip[2] \in 128..191)))

\* the distinct public addresses the flows show behind an interface
PublicBehind(fs, ifID) ==
  { fs[i].SrcAddr : i \in { j \in 1..Len(fs) : fs[j].InputIf = ifID /\ Public(fs[j].SrcAddr) } } \cup
  { fs[i].DstAddr : i \in { j \in 1..Len(fs) : fs[j].OutputIf = ifID /\ Public(fs[j].DstAddr) } }

\* the interface has at least as many public addresses behind it as every
\* other, and is the one that has any if only one has
WidestPublic(fs, ifID) ==
  /\ \A other \in Interfaces(fs) :
       Cardinality(PublicBehind(fs, other)) <= Cardinality(PublicBehind(fs, ifID))
  /\ \A only \in Interfaces(fs) :
       { i \in Interfaces(fs) : PublicBehind(fs, i) # {} } = {only} => ifID = only

\* the flows a request's filter, time range and exporter leave
RECURSIVE Selected(_, _, _)
Selected(req, exporter, i) ==
  IF i > Len(flows) THEN <<>>
  ELSE (IF /\ Matches(ParseFilter(RequestFilter(req)), flows[i])
           /\ (req.timeRange = 0 \/ flows[i].ReceivedAt >= now - req.timeRange)
           /\ (exporter = <<>> \/ IPString(flows[i].ExporterIP) = exporter)
        THEN <<flows[i]>> ELSE <<>>) \o Selected(req, exporter, i + 1)

\* C19: a firewall response to a request without rightIF has as right
\* interface node of every interface-to-interface link an interface with at
\* least as many distinct public addresses behind it as every other
\* interface of the flows it was inferred from, and the only interface with
\* a public address if there is one only
C19_AutoWAN ==
  request.mode = "firewall" /\ request.rightIF = 0 /\ response.status = 200 =>
    \A l \in { k \in response.links : isIfNode(k.Source) /\ isIfNode(k.Target) } :
      IF request.leftExporter # <<>> /\ request.rightExporter # <<>> /\
         request.leftExporter # request.rightExporter
      THEN \E exp \in Exporters :
             /\ IPString(exp) \in {request.leftExporter, request.rightExporter}
             /\ l.Target = makeIfNode(extractIfID(l.Target), exp, TRUE)
             /\ WidestPublic(Selected(request, IPString(exp), 1), extractIfID(l.Target))
      ELSE /\ l.Target = makeIfNode(extractIfID(l.Target), <<>>, FALSE)
           /\ WidestPublic(Selected(request, request.leftExporter, 1), extractIfID(l.Target))

\* public addresses were seen behind the interfaces 3 and 4, two of them
\* behind 3, and the response links an interface to IF:3
C19_Witness ==
  /\ request.mode = "firewall"
  /\ request.rightIF = 0
  /\ request.leftExporter = <<>>
  /\ response.status = 200
  /\ Cardinality(PublicBehind(flows, 3)) = 2
  /\ Cardinality(PublicBehind(flows, 4)) = 1
  /\ \E l \in response.links : isIfNode(l.Source) /\ l.Target = <<"I", "F", ":", "3">>

\* C20: after MarkFlowAccessed(key) or MarkFlowsAccessed(keys) every stored
\* record whose FlowKey is one of the given keys has LastAccessed = now,
\* also when several stored records share a FlowKey
C20_MarkCoversAll ==
  [][/\ \A key \in FlowKeys :
          MarkFlowAccessed(key) =>
            \A i \in 1..Len(flows') :
              FlowKey(flows'[i]) = key => flows'[i].LastAccessed = now
     /\ \A keys \in UNION { [1..n -> FlowKeys] : n \in 1..2 } :
          MarkFlowsAccessed(keys) =>
            \A i \in 1..Len(flows') :
              FlowKey(flows'[i]) \in { keys[k] : k \in 1..Len(keys) } =>
                flows'[i].LastAccessed = now]_vars

\* ---------------------------------------------------------------------------
\* NetFlow v5 datagrams as an exporter builds them
\* ---------------------------------------------------------------------------

\* cap on the records of one NetFlow v5 datagram
MaxRecords == 2

\* what an exporter knows of a flow when it writes a v5 record
V5Export(src, dst, sport, dport, nPackets, nBytes, srcAS, dstAS) ==
  [SrcAddr |-> src, DstAddr |-> dst, SrcPort |-> sport, DstPort |-> dport,
   Protocol |-> 6, TCPFlags |-> 18, Packets |-> nPackets, Bytes |-> nBytes,
   First |-> 1000, Last |-> 2000, SrcAS |-> srcAS, DstAS |-> dstAS,
   InputIf |-> 1, OutputIf |-> 65535]

\* records with small and with large values of their fields; the counters
\* go up to 2^31 - 1, the largest integer the checker computes with
V5Exports ==
  { V5Export(a[1], a[2], p[1], p[2], c[1], c[2], p[3], p[4]) :
      a \in { << <<10, 0, 0, 1>>, <<8, 8, 8, 8>> >>, << <<255, 255, 255, 255>>, <<0, 0, 0, 0>> >> },
      p \in { <<1234, 53, 0, 65535>>, <<65535, 0, 64512, 1>> },
      c \in { <<1, 2147483647>>, <<65536, 70000>> } }

\* the 48 bytes of a record, laid out as the NetFlow v5 record structure
EncodeV5Record(e) ==
  e.SrcAddr \o e.DstAddr \o B32(0) \o B16(e.InputIf) \o B16(e.OutputIf) \o
  B32(e.Packets) \o B32(e.Bytes) \o B32(e.First) \o B32(e.Last) \o
  B16(e.SrcPort) \o B16(e.DstPort) \o <<0, e.TCPFlags, e.Protocol, 0>> \o
  B16(e.SrcAS) \o B16(e.DstAS) \o <<24, 16, 0, 0>>

\* the datagram: the 24 bytes of the header, which declares the number of
\* records, and the records
EncodeV5(records) ==
  B16(5) \o B16(Len(records)) \o B32(SysUptime) \o B32(UnixSecs) \o B32(0) \o B32(1) \o
  <<0, 0, 0, 0>> \o Concat([i \in 1..Len(records) |-> EncodeV5Record(records[i])], 1)

\* Parser.Parse of a v5 datagram an exporter built; the v5 decoder keeps
\* nothing from one datagram to the next, so a behaviour follows one datagram
ParseV5(records, addr) ==
  /\ ~crashed
  /\ ~roundTrip.parsed
  /\ \E r \in {Parse(EncodeV5(records), addr, parser, now)} :
       /\ parser' = r.parser
       /\ crashed' = r.panic
       /\ roundTrip' = RoundTrip(records, addr, r)
  /\ UNCHANGED <<announced, installedBy, ingestResult, request, response, matched, queried,
                 passed, storeVars, pipeVars, concVars>>

InitV5 == StoreInit(ElephantConfigs) /\ ParserInit /\ PipeInit /\ ConcInit /\ ApiInit

NextV5 ==
  \E records \in UNION { [1..n -> V5Exports] : n \in 0..MaxRecords }, addr \in Exporters :
    ParseV5(records, addr)

SpecV5 == InitV5 /\ [][NextV5]_vars

\* C21: for a v5 datagram whose header declares N records and which holds
\* them, Parse returns without an error exactly N flows, in record order,
\* whose bytes, packets, ports and addresses are the encoded values, and
\* whose AS numbers are the encoded 16-bit values
C21_V5RoundTrip ==
  roundTrip.parsed =>
    /\ ~roundTrip.err
    /\ Len(roundTrip.flows) = Len(roundTrip.records)
    /\ \A i \in 1..Len(roundTrip.records) :
         LET e == roundTrip.records[i]
             f == roundTrip.flows[i]
         IN /\ f.Bytes = e.Bytes
            /\ f.Packets = e.Packets
            /\ f.SrcPort = e.SrcPort
            /\ f.DstPort = e.DstPort
            /\ f.SrcAddr = e.SrcAddr
            /\ f.DstAddr = e.DstAddr
            /\ f.SrcAS = e.SrcAS
            /\ f.DstAS = e.DstAS

\* a datagram of two different records was parsed: the first with a byte
\* count of 2^31 - 1, the second with a packet count above 16 bits
C21_Witness ==
  /\ roundTrip.parsed
  /\ Len(roundTrip.records) = 2
  /\ roundTrip.records[1].Bytes = 2147483647
  /\ roundTrip.records[1].SrcPort = 65535
  /\ roundTrip.records[2].Packets = 65536
  /\ roundTrip.records[2].SrcAddr # roundTrip.records[1].SrcAddr
  /\ Len(roundTrip.flows) = 2

\* C22: host is an alias of ip: for every address value V the filter parsed
\* from "host=V" is valid and returns for every flow what the filter parsed
\* from "ip=V" returns
C22_HostAlias ==
  \A V \in AddressValues :
    matched.text = HostFilter(V) =>
      /\ matched.valid
      /\ matched.ret = Matches(ParseFilter(IpFilter(V)), matched.flow)

\* ---------------------------------------------------------------------------
\* The consumers of the store and what they leave behind
\* ---------------------------------------------------------------------------

\* a map entry that points at the stored record itself
flowShared(fl, i) == i

\* QueryAggregatedFlows, the branch for a new key (flowCopy := *flow;
\* flowMap[key] = &flowCopy): the map entry is a record of its own and
\* points at no stored record (0)
flowCopy(fl, i) == 0

\* the store content after the loop of QueryAggregatedFlows over the flows
\* from the i-th on; entry[k] is the stored record the map entry of the key k
\* points at, and the sums go to the record the entry points at
RECURSIVE AfterAggregation(_, _, _, _)
AfterAggregation(fl, filter, i, entry) ==
  IF i > Len(fl) THEN fl
  ELSE IF ~IsEmpty(filter) /\ ~Matches(filter, fl[i])
  THEN AfterAggregation(fl, filter, i + 1, entry)
  ELSE IF FlowKey(fl[i]) \in DOMAIN entry
  THEN AfterAggregation(IF entry[FlowKey(fl[i])] = 0 THEN fl
                        ELSE [fl EXCEPT ![entry[FlowKey(fl[i])]] = Aggregate(@, fl[i])],
                        filter, i + 1, entry)
  ELSE AfterAggregation(fl, filter, i + 1, MapPut(entry, FlowKey(fl[i]), flowCopy(fl, i)))

\* fmt.Sprintf("%s:%d", addr, port)
Endpoint(addr, port) == IPString(addr) \o <<":">> \o Dec(port)

\* a faulty variant of ConversationKey: the endpoints in the order of the flow
DirectedKey(f) ==
  <<Endpoint(f.SrcAddr, f.SrcPort), Endpoint(f.DstAddr, f.DstPort), f.Protocol>>

\* Flow.ConversationKey: the smaller endpoint first
ConversationKey(f) ==
  IF StrLess(Endpoint(f.SrcAddr, f.SrcPort), Endpoint(f.DstAddr, f.DstPort))
  THEN <<Endpoint(f.SrcAddr, f.SrcPort), Endpoint(f.DstAddr, f.DstPort), f.Protocol>>
  ELSE <<Endpoint(f.DstAddr, f.DstPort), Endpoint(f.SrcAddr, f.SrcPort), f.Protocol>>

\* QueryConversations, the branch for a new key: endpoint A is the smaller
\* of the two endpoints of the flow
NewConversation(f) ==
  [AddrA |-> IF StrLess(Endpoint(f.SrcAddr, f.SrcPort), Endpoint(f.DstAddr, f.DstPort)) THEN f.SrcAddr ELSE f.DstAddr,
   PortA |-> IF StrLess(Endpoint(f.SrcAddr, f.SrcPort), Endpoint(f.DstAddr, f.DstPort)) THEN f.SrcPort ELSE f.DstPort,
   AddrB |-> IF StrLess(Endpoint(f.SrcAddr, f.SrcPort), Endpoint(f.DstAddr, f.DstPort)) THEN f.DstAddr ELSE f.SrcAddr,
   PortB |-> IF StrLess(Endpoint(f.SrcAddr, f.SrcPort), Endpoint(f.DstAddr, f.DstPort)) THEN f.DstPort ELSE f.SrcPort,
   Protocol |-> f.Protocol, FirstSeen |-> f.ReceivedAt, LastSeen |-> f.ReceivedAt,
   InputIf |-> f.InputIf, OutputIf |-> f.OutputIf, ExporterIP |-> f.ExporterIP,
   BytesAtoB |-> 0, PacketsAtoB |-> 0, FlowsAtoB |-> 0,
   BytesBtoA |-> 0, PacketsBtoA |-> 0, FlowsBtoA |-> 0]

\* QueryConversations, "Determine direction and aggregate" and "Update timing"
AddToConversation(conv, f) ==
  IF Endpoint(f.SrcAddr, f.SrcPort) = Endpoint(conv.AddrA, conv.PortA)
  THEN [conv EXCEPT !.BytesAtoB = @ + f.Bytes, !.PacketsAtoB = @ + f.Packets, !.FlowsAtoB = @ + 1,
                    !.FirstSeen = IF f.ReceivedAt < @ THEN f.ReceivedAt ELSE @,
                    !.LastSeen = IF f.ReceivedAt > @ THEN f.ReceivedAt ELSE @]
  ELSE [conv EXCEPT !.BytesBtoA = @ + f.Bytes, !.PacketsBtoA = @ + f.Packets, !.FlowsBtoA = @ + 1,
                    !.FirstSeen = IF f.ReceivedAt < @ THEN f.ReceivedAt ELSE @,
                    !.LastSeen = IF f.ReceivedAt > @ THEN f.ReceivedAt ELSE @]

\* QueryConversations, the loop over fs.flows: the convMap after the flows
\* from the i-th on
RECURSIVE convMap(_, _, _, _)
convMap(fl, filter, i, acc) ==
  IF i > Len(fl) THEN acc
  ELSE IF ~IsEmpty(filter) /\ ~Matches(filter, fl[i]) THEN convMap(fl, filter, i + 1, acc)
  ELSE convMap(fl, filter, i + 1,
               MapPut(acc, ConversationKey(fl[i]),
                      AddToConversation(IF ConversationKey(fl[i]) \in DOMAIN acc
                                        THEN acc[ConversationKey(fl[i])]
                                        ELSE NewConversation(fl[i]), fl[i])))

\* Conversation.TotalBytes, and the conversations in the order of the sort
\* by bytes or by time
ConversationRank(conv, sortBy) ==
  IF sortBy = SortByBytes THEN conv.BytesAtoB + conv.BytesBtoA ELSE conv.LastSeen

\* FlowStore.QueryConversations: what it may return for the store content;
\* the map yields the conversations in any order and sort.Slice is not stable
QueryConversations(fl, args) ==
  { Limit(s, args.limit) :
      s \in { o \in Orderings({ convMap(fl, args.filter, 1, EmptyMap)[k] : k \in DOMAIN convMap(fl, args.filter, 1, EmptyMap) }) :
                \A i \in 1..(Len(o) - 1) :
                  IF args.ascending
                  THEN ConversationRank(o[i], args.sortBy) <= ConversationRank(o[i + 1], args.sortBy)
                  ELSE ConversationRank(o[i], args.sortBy) >= ConversationRank(o[i + 1], args.sortBy) } }

\* FlowStore.GetFilteredStats
GetFilteredStats(fl, filter) ==
  [Count |-> CountWhere(fl, LAMBDA f : IsEmpty(filter) \/ Matches(filter, f)),
   Bytes |-> SumWhere(fl, LAMBDA f : IsEmpty(filter) \/ Matches(filter, f), LAMBDA f : f.Bytes),
   Packets |-> SumWhere(fl, LAMBDA f : IsEmpty(filter) \/ Matches(filter, f), LAMBDA f : f.Packets)]

\* the call a consumer made, its arguments and what it returned
Called(call, args, ret) ==
  [args |-> args, plain |-> <<>>, aggregated |-> <<>>, call |-> call, ret |-> ret]

\* two exports of one connection and the answer to them
ConsumerFlows ==
  { ApiFlow(<<10, 0, 0, 1>>, 1234, <<8, 8, 8, 8>>, 53, 17, 5, 1, 3, ExporterA, 1),
    ApiFlow(<<10, 0, 0, 1>>, 1234, <<8, 8, 8, 8>>, 53, 17, 3, 1, 3, ExporterA, 2),
    ApiFlow(<<8, 8, 8, 8>>, 53, <<10, 0, 0, 1>>, 1234, 17, 4, 3, 1, ExporterA, 2) }

ConsumerKeys == { FlowKey(f) : f \in ConsumerFlows }

\* the calls of the consumers
ConsumerArgs ==
  { [filter |-> ParseFilter(text), sortBy |-> sa[1], ascending |-> sa[2], limit |-> sa[3]] :
      text \in { <<>>, <<"d", "p", "o", "r", "t", "=", "5", "3">> },
      sa \in { <<SortByBytes, FALSE, 0>>, <<SortByTime, TRUE, 1>> } }

\* the calls are followed up to the first one that returns something
CallQuery(args) ==
  /\ queried = NoQueried
  /\ \E ret \in QueryResults(flows, args) : queried' = Called("Query", args, ret)
  /\ UNCHANGED <<request, response, matched, roundTrip, passed, storeVars, parserVars, pipeVars, concVars>>

CallQueryAggregatedFlows(args) ==
  /\ queried = NoQueried
  /\ \E ret \in QueryAggregatedFlows(flows, args) : queried' = Called("QueryAggregatedFlows", args, ret)
  /\ flows' = AfterAggregation(flows, args.filter, 1, EmptyMap)
  /\ UNCHANGED <<maxFlows, stats, exporters, lastStatsUpdate, flowsInWindow, bytesInWindow,
                 evictionConfig, evictionStats, now>>
  /\ UNCHANGED <<request, response, matched, roundTrip, passed, parserVars, pipeVars, concVars>>

CallQueryConversations(args) ==
  /\ queried = NoQueried
  /\ \E ret \in QueryConversations(flows, args) : queried' = Called("QueryConversations", args, ret)
  /\ UNCHANGED <<request, response, matched, roundTrip, passed, storeVars, parserVars, pipeVars, concVars>>

CallGetFilteredStats(args) ==
  /\ queried = NoQueried
  /\ queried' = Called("GetFilteredStats", args, GetFilteredStats(flows, args.filter))
  /\ UNCHANGED <<request, response, matched, roundTrip, passed, storeVars, parserVars, pipeVars, concVars>>

CallGetFilteredCount(args) ==
  /\ queried = NoQueried
  /\ queried' = Called("GetFilteredCount", args, GetFilteredCount(flows, args.filter))
  /\ UNCHANGED <<request, response, matched, roundTrip, passed, storeVars, parserVars, pipeVars, concVars>>

CallGetStats ==
  /\ queried = NoQueried
  /\ queried' = Called("GetStats", NoArgs, stats)
  /\ UNCHANGED <<request, response, matched, roundTrip, passed, storeVars, parserVars, pipeVars, concVars>>

InitConsumers == StoreInitAt(ApiConfigs, 2) /\ ParserInit /\ PipeInit /\ ConcInit /\ ApiInit

NextConsumers ==
  \/ \E f \in ConsumerFlows : queried = NoQueried /\ StoreExport(f)
  \/ \E key \in ConsumerKeys : queried = NoQueried /\ MarkFlowAccessed(key) /\ UNCHANGED otherVars
  \/ \E keys \in UNION { [1..n -> ConsumerKeys] : n \in 1..2 } :
        queried = NoQueried /\ MarkFlowsAccessed(keys) /\ UNCHANGED otherVars
  \/ \E args \in ConsumerArgs : CallQuery(args)
  \/ \E args \in ConsumerArgs : CallQueryAggregatedFlows(args)
  \/ \E args \in ConsumerArgs : CallQueryConversations(args)
  \/ \E args \in ConsumerArgs : CallGetFilteredStats(args)
  \/ \E args \in ConsumerArgs : CallGetFilteredCount(args)
  \/ CallGetStats

SpecConsumers == InitConsumers /\ [][NextConsumers]_vars

\* the same records in the same order, but for their LastAccessed
SameButLastAccessed(a, b) ==
  /\ Len(a) = Len(b)
  /\ \A i \in 1..Len(a) : [a[i] EXCEPT !.LastAccessed = b[i].LastAccessed] = b[i]

\* C23: a call of Query, QueryAggregatedFlows, QueryConversations,
\* GetFilteredStats, GetFilteredCount or GetStats leaves the stored flows and
\* their order, the statistics and the eviction counters as they were; a step
\* that is neither such a call nor an Add (a call of MarkFlowAccessed or
\* MarkFlowsAccessed) changes nothing but the LastAccessed of stored flows
C23_ReadOnlyConsumers ==
  [][/\ queried' # queried =>
          /\ flows' = flows
          /\ stats' = stats
          /\ evictionStats' = evictionStats
     /\ (queried' = queried /\ stats'.TotalFlows = stats.TotalFlows) =>
          /\ SameButLastAccessed(flows, flows')
          /\ stats' = stats
          /\ evictionStats' = evictionStats
          /\ maxFlows' = maxFlows]_vars

\* two exports of one connection were stored, the first was marked, and
\* QueryAggregatedFlows merged them into one flow with the bytes of both
C23_Witness ==
  /\ queried # NoQueried
  /\ queried.call = "QueryAggregatedFlows"
  /\ Len(flows) = 2
  /\ FlowKey(flows[1]) = FlowKey(flows[2])
  /\ flows[1].LastAccessed = now
  /\ flows[2].LastAccessed = 0
  /\ Len(queried.ret) = 1
  /\ queried.ret[1].Bytes = flows[1].Bytes + flows[2].Bytes

\* ---------------------------------------------------------------------------
\* The totals of the store against what was passed to Add
\* ---------------------------------------------------------------------------

\* the flows of the exporters: NetFlow v5 and v9 as before, an IPFIX flow of
\* the second exporter, and a flow whose ExporterIP is nil
TotalsFlows ==
  InputFlows \cup
  { [MkFlow(TupleB, 3) EXCEPT !.Version = IPFIX],
    [MkFlow(TupleA, 4) EXCEPT !.ExporterIP = <<>>] }

TotalsBatches == UNION { [1..n -> TotalsFlows] : n \in 0..MaxBatch }

\* a caller passes a batch to Add
AddPassed(batch) ==
  /\ WithinBudget(batch)
  /\ Add(batch)
  /\ passed' = passed \o batch
  /\ UNCHANGED <<request, response, matched, queried, roundTrip, parserVars, pipeVars, concVars>>

NextTotals ==
  \/ \E batch \in TotalsBatches : AddPassed(batch)
  \/ Tick /\ UNCHANGED otherVars

SpecTotals == Init /\ [][NextTotals]_vars

\* C24: GetStats reports TotalFlows, TotalBytes, TotalPackets and the
\* per-version counters equal to the count and the sums over all flows ever
\* passed to Add, and UniqueExporters equal to the number of distinct
\* exporter addresses among them, at every instant
C24_TotalsBookkeeping ==
  /\ stats.TotalFlows = Len(passed)
  /\ stats.TotalBytes = SumWhere(passed, LAMBDA f : TRUE, LAMBDA f : f.Bytes)
  /\ stats.TotalPackets = SumWhere(passed, LAMBDA f : TRUE, LAMBDA f : f.Packets)
  /\ stats.V5Flows = CountWhere(passed, LAMBDA f : f.Version = NetFlowV5)
  /\ stats.V9Flows = CountWhere(passed, LAMBDA f : f.Version = NetFlowV9)
  /\ stats.IPFIXFlows = CountWhere(passed, LAMBDA f : f.Version = IPFIX)
  /\ stats.UniqueExporters =
       Cardinality({ passed[i].ExporterIP : i \in 1..Len(passed) } \ {<<>>})

\* the counters alone, without UniqueExporters
CountersMatchPassed ==
  /\ stats.TotalFlows = Len(passed)
  /\ stats.TotalBytes = SumWhere(passed, LAMBDA f : TRUE, LAMBDA f : f.Bytes)
  /\ stats.TotalPackets = SumWhere(passed, LAMBDA f : TRUE, LAMBDA f : f.Packets)
  /\ stats.V5Flows = CountWhere(passed, LAMBDA f : f.Version = NetFlowV5)
  /\ stats.V9Flows = CountWhere(passed, LAMBDA f : f.Version = NetFlowV9)
  /\ stats.IPFIXFlows = CountWhere(passed, LAMBDA f : f.Version = IPFIX)
  /\ Cardinality(exporters) =
       Cardinality({ passed[i].ExporterIP : i \in 1..Len(passed) } \ {<<>>})

\* ---------------------------------------------------------------------------
\* The eviction pass: what it removes and in which order
\* ---------------------------------------------------------------------------

\* C25: an eviction pass removes no flow it classified as Top-K protected;
\* when the flows it did not classify as Top-K are fewer than the excess, it
\* removes all of them, keeps every Top-K flow and leaves more than maxFlows
\* flows in the store
C25_TopKNeverRelaxed ==
  \A p \in Passes :
    /\ p.removed \cap p.topk = {}
    /\ Cardinality(PassIdx(p) \ p.topk) < p.toEvict =>
         /\ p.removed = PassIdx(p) \ p.topk
         /\ Len(p.pre) - Cardinality(p.removed) > maxFlows

\* a pass has left the store over maxFlows with Top-K flows only, and a pass
\* from this state finds fewer flows outside the Top-K than it has to evict,
\* one of them LRU-protected
C25_Witness ==
  /\ evictionStats.TopKProtected > 0
  /\ Len(flows) > maxFlows
  /\ \E p \in Passes :
       /\ p.topk # {}
       /\ p.lru # {}
       /\ Cardinality(PassIdx(p) \ p.topk) < p.toEvict
       /\ p.lru \subseteq p.removed

\* a store of two flows that protects the largest one and the flows accessed
\* within the last two instants
OrderConfigs == { [maxFlows |-> StoreCap + 1, TopKPercent |-> 50, LRUWindow |-> 2] }

\* two small flows of two connections and a large flow of a third
OrderFlows ==
  { MkFlow(TupleA, 1), MkFlow(TupleB, 1), [MkFlow(TupleA, 5) EXCEPT !.SrcPort = 999] }

OrderBatches == UNION { [1..n -> OrderFlows] : n \in 0..MaxBatch }

InitOrder == StoreInit(OrderConfigs) /\ ParserInit /\ PipeInit /\ ConcInit /\ ApiInit

NextOrder ==
  \/ \E batch \in OrderBatches :
        stats.TotalFlows + Len(batch) <= MaxTotal /\ Add(batch) /\ UNCHANGED otherVars
  \/ \E f \in OrderFlows : MarkFlowAccessed(FlowKey(f)) /\ UNCHANGED otherVars
  \/ Tick /\ UNCHANGED otherVars

SpecOrder == InitOrder /\ [][NextOrder]_vars

\* the outcomes of the eviction passes that Add runs from the current store
\* state: the pass and the slice it leaves
PassOutcomes ==
  UNION { evictFlows(flows \o batch, Len(flows), maxFlows, evictionConfig, evictionStats, now)
          : batch \in { b \in OrderBatches : Len(flows) + Len(b) > maxFlows } }

\* the flows the pass classified neither as Top-K nor as LRU protected
Evictable(p) == PassIdx(p) \ (p.topk \cup p.lru)

\* C26: an eviction pass removes the unprotected flows oldest first until
\* the excess is met; it removes an LRU-protected flow only when every
\* unprotected flow is removed, and then no flow accessed later than one it
\* keeps; the surviving flows keep their relative insertion order
C26_EvictionOrder ==
  \A out \in PassOutcomes :
    /\ \A i \in Evictable(out.pass) :
         i \in out.pass.removed <=>
           Cardinality({ j \in Evictable(out.pass) : j < i }) < out.pass.toEvict
    /\ out.pass.removed \cap out.pass.lru # {} => Evictable(out.pass) \subseteq out.pass.removed
    /\ \A r \in out.pass.removed \cap out.pass.lru : \A k \in out.pass.lru \ out.pass.removed :
         out.pass.pre[r].LastAccessed <= out.pass.pre[k].LastAccessed
    /\ Len(out.flows) = Len(out.pass.pre) - Cardinality(out.pass.removed)
    /\ \A i \in PassIdx(out.pass) \ out.pass.removed :
         out.flows[1 + Cardinality({ j \in PassIdx(out.pass) \ out.pass.removed : j < i })]
           = out.pass.pre[i]

\* passes have evicted before; a pass from this state removes unprotected
\* flows and keeps the LRU-protected ones, and another pass from this state
\* runs out of unprotected flows, removes the earlier accessed of two
\* LRU-protected flows and keeps the other
C26_Witness ==
  /\ evictionStats.TotalEvicted > 0
  /\ \E out \in PassOutcomes :
       /\ Evictable(out.pass) \cap out.pass.removed # {}
       /\ out.pass.lru # {}
       /\ out.pass.lru \cap out.pass.removed = {}
  /\ \E out \in PassOutcomes :
       \E r \in out.pass.lru \cap out.pass.removed : \E k \in out.pass.lru \ out.pass.removed :
         out.pass.pre[r].LastAccessed < out.pass.pre[k].LastAccessed

\* ---------------------------------------------------------------------------
\* Templates that are defined again
\* ---------------------------------------------------------------------------

\* the template a template flowset with these definitions stands for
TemplateOf(id, defs) == [ID |-> id, FieldDefs |-> defs, Length |-> SumLengths(defs, 1)]

\* the definitions of the last template flowset of the datagram for the id
LastDefs(dg, tid) ==
  dg.sets[CHOOSE i \in 1..Len(dg.sets) :
            /\ dg.sets[i].kind = "template" /\ dg.sets[i].id = tid
            /\ \A j \in (i + 1)..Len(dg.sets) :
                 ~(dg.sets[j].kind = "template" /\ dg.sets[j].id = tid)].defs

\* a parser that has received nothing but the definition of one template
ParserWith(version, tid, defs) ==
  Parse(Encode([version |-> version, sets |-> <<TemplateSet(tid, defs)>>]), ExporterA,
        [v9Templates |-> EmptyMap, ipfixTemplates |-> EmptyMap], 1).parser

\* the later datagrams that carry one data flowset
DataDatagrams(version, tid) ==
  { dg \in Datagrams :
      dg.version = version /\ Len(dg.sets) = 1 /\ dg.sets[1].kind = "data" /\ dg.sets[1].id = tid }

\* whether the cache holds a template under (version, the source id, tid)
Has(p, version, tid) ==
  SourceID \in DOMAIN CacheOf(p, version) /\ tid \in DOMAIN CacheOf(p, version)[SourceID]

Holds(a, flow) == Matches(ParseFilter(a), flow)

\* C28: for all conditions a, b, c the filter "a || b c", with the AND
\* written as juxtaposition, &&, and or a comma, is valid and matches a flow
\* iff a matches or b and c both match; "!a b" is valid and matches iff a
\* does not match and b matches
C28_Precedence ==
  /\ \A a \in Operands, b \in Operands, c \in Operands, sign \in AndSigns :
       matched.text = OrThenAnd(a, b, c, sign) =>
         /\ matched.valid
         /\ matched.ret = (Holds(a, matched.flow) \/ (Holds(b, matched.flow) /\ Holds(c, matched.flow)))
  /\ \A a \in Operands, b \in Operands :
       matched.text = NotThen(a, b) =>
         /\ matched.valid
         /\ matched.ret = (~Holds(a, matched.flow) /\ Holds(b, matched.flow))

\* "port=53 || src=10.0.0.0/8 proto!=tcp" was applied to a flow to port 53
\* that is TCP or comes from elsewhere: a matches, c or b does not, and the
\* filter matches
C28_Witness ==
  /\ \E a \in Operands, b \in Operands, c \in Operands :
       /\ matched.text = OrThenAnd(a, b, c, <<" ">>)
       /\ Holds(a, matched.flow)
       /\ ~Holds(c, matched.flow)
  /\ matched.valid
  /\ matched.ret

SankeyTraffic ==
  << ApiFlow(<<10, 0, 0, 1>>, 1234, <<10, 0, 0, 2>>, 22, 6, 7, 1, 3, ExporterA, 2),
     ApiFlow(<<10, 0, 0, 2>>, 4321, <<10, 0, 0, 1>>, 443, 6, 6, 2, 3, ExporterA, 2),
     ApiFlow(<<10, 0, 0, 3>>, 80, <<10, 0, 0, 3>>, 80, 6, 3, 1, 1, ExporterA, 2),
     ApiFlow(<<10, 0, 0, 1>>, 1234, <<8, 8, 8, 8>>, 53, 17, 5, 1, 3, ExporterA, 2),
     ApiFlow(<<8, 8, 8, 8>>, 53, <<10, 0, 0, 1>>, 1234, 17, 4, 3, 1, ExporterA, 2) >>

\* the requests for a graph: every mode, the right interface guessed or given
GraphRequests ==
  { SankeyRequest(mode, <<>>, "", 0, 0, 0, rightIF, <<>>, <<>>) :
      mode \in {"", "ip-to-service", "firewall"}, rightIF \in {0, 3} }

\* the ingest goroutine stores a flow of the traffic, in the order of arrival
StoreSeen(n) ==
  /\ request = NoRequest
  /\ Len(flows) < MaxApiFlows
  /\ \A i \in 1..Len(flows) : \E k \in 1..(n - 1) : SankeyTraffic[k] = flows[i]
  /\ Add(<<SankeyTraffic[n]>>)
  /\ UNCHANGED otherVars

InitSankey == StoreInitAt(ApiConfigs, 2) /\ ParserInit /\ PipeInit /\ ConcInit /\ ApiInit

NextSankey ==
  \/ \E n \in 1..Len(SankeyTraffic) : StoreSeen(n)
  \/ \E req \in GraphRequests : HandleSankey(req)

SpecSankey == InitSankey /\ [][NextSankey]_vars

\* the nodes that links lead to from the nodes of S, in up to n steps
RECURSIVE ReachedFrom(_, _, _)
ReachedFrom(links, S, n) ==
  IF n = 0 \/ S = {} THEN {}
  ELSE { l.Target : l \in { k \in links : k.Source \in S } }
         \cup ReachedFrom(links, { l.Target : l \in { k \in links : k.Source \in S } }, n - 1)

\* C30: in every mode the links of a response form a directed acyclic graph:
\* no link leads from a node to itself, and no node is reached from itself
\* along the links
C30_SankeyAcyclic ==
  /\ \A l \in response.links : l.Source # l.Target
  /\ \A l \in response.links :
       l.Source \notin ReachedFrom(response.links, {l.Source}, Cardinality(response.links))

\* the modes one by one
IPtoIPAcyclic == request.mode = "" => C30_SankeyAcyclic
IPtoServiceAcyclic == request.mode = "ip-to-service" => C30_SankeyAcyclic
FirewallAcyclic == request.mode = "firewall" => C30_SankeyAcyclic

\* ---------------------------------------------------------------------------
\* The firewall graph of two exporters
\* ---------------------------------------------------------------------------

\* a third exporter, whose address ends with the two octets ExporterA's ends
\* with
ExporterC == <<10, 1, 2, 1>>

\* the same connection to a resolver as three exporters report it, and a
\* second host behind the third exporter
CrossTraffic ==
  << ApiFlow(<<10, 0, 0, 1>>, 1234, <<8, 8, 8, 8>>, 53, 17, 5, 1, 3, ExporterA, 2),
     ApiFlow(<<10, 0, 0, 1>>, 1234, <<8, 8, 8, 8>>, 53, 17, 4, 1, 3, ExporterB, 2),
     ApiFlow(<<10, 0, 0, 2>>, 4321, <<8, 8, 8, 8>>, 53, 17, 3, 1, 3, ExporterC, 2) >>

CrossExporters == {ExporterA, ExporterB, ExporterC}

\* the requests for a firewall graph: of all exporters, of one, and of two
CrossRequests ==
  { SankeyRequest("firewall", <<>>, "", 0, 0, 0, rightIF, left, right) :
      rightIF \in {0, 3},
      left \in {<<>>, IPString(ExporterA)},
      right \in {<<>>, IPString(ExporterA), IPString(ExporterB), IPString(ExporterC)} }

\* the ingest goroutine stores a flow of the traffic, in the order of arrival
StoreReported(n) ==
  /\ request = NoRequest
  /\ Len(flows) < MaxApiFlows
  /\ \A i \in 1..Len(flows) : \E k \in 1..(n - 1) : CrossTraffic[k] = flows[i]
  /\ Add(<<CrossTraffic[n]>>)
  /\ UNCHANGED otherVars

NextCross ==
  \/ \E n \in 1..Len(CrossTraffic) : StoreReported(n)
  \/ \E req \in CrossRequests : HandleSankey(req)

SpecCross == InitSankey /\ [][NextCross]_vars

\* crossExporter, of a request
CrossMode(req) ==
  req.leftExporter # <<>> /\ req.rightExporter # <<>> /\ req.leftExporter # req.rightExporter

\* the interface node id carries the label of the exporter that prints as exp
Labelled(id, exp) ==
  \E e \in CrossExporters : IPString(e) = exp /\ id = makeIfNode(extractIfID(id), e, TRUE)

\* C31: in a cross-exporter firewall response a link between an address of
\* the left column and an interface of the right exporter, and a link between
\* an interface of the left exporter and an address of the right column, has
\* inferred = true; in a single-exporter response no link has
C31_InferredLinks ==
  request.mode = "firewall" /\ response.status = 200 =>
    IF CrossMode(request)
    THEN /\ \A l \in response.links :
              ~isIfNode(l.Source) /\ isIfNode(l.Target) /\
              Labelled(l.Target, request.rightExporter) /\
              ~Labelled(l.Target, request.leftExporter) => l.Inferred
         /\ \A l \in response.links :
              isIfNode(l.Source) /\ ~isIfNode(l.Target) /\
              Labelled(l.Source, request.leftExporter) /\
              ~Labelled(l.Source, request.rightExporter) => l.Inferred
    ELSE \A l \in response.links : ~l.Inferred

\* the part on single-exporter responses
SingleExporterNotInferred ==
  request.mode = "firewall" /\ ~CrossMode(request) => \A l \in response.links : ~l.Inferred

\* no link of any response is flagged
NeverInferred == \A l \in response.links : ~l.Inferred

\* C32: in a cross-exporter firewall response the interface nodes of the two
\* exporters differ: an interface id of a stored flow of the left exporter
\* and the same id at the right exporter give two node ids
C32_DistinctIfNodes ==
  request.mode = "firewall" /\ response.status = 200 /\ CrossMode(request) =>
    \A i, j \in 1..Len(flows) :
      /\ IPString(flows[i].ExporterIP) = request.leftExporter
      /\ IPString(flows[j].ExporterIP) = request.rightExporter
      => \A ifID \in {flows[i].InputIf, flows[i].OutputIf, flows[j].InputIf, flows[j].OutputIf} :
           makeIfNode(ifID, flows[i].ExporterIP, TRUE) # makeIfNode(ifID, flows[j].ExporterIP, TRUE)

\* exporters whose addresses differ in their last two octets are kept apart
DistinctIfNodesByLastOctets ==
  request.mode = "firewall" /\ response.status = 200 /\ CrossMode(request) /\
  request.rightExporter # IPString(ExporterC) =>
    C32_DistinctIfNodes

\* ---------------------------------------------------------------------------
\* Conversations
\* ---------------------------------------------------------------------------

\* Conversation.TotalBytes, Conversation.IsBidirectional
TotalBytes(c) == c.BytesAtoB + c.BytesBtoA
IsBidirectional(c) == c.FlowsAtoB > 0 /\ c.FlowsBtoA > 0

\* a query and its answer, the same query over TCP, and a connection between
\* two ports of one host, of which the port 80 gives the smaller string
ConversationFlows ==
  { ApiFlow(<<10, 0, 0, 1>>, 1234, <<8, 8, 8, 8>>, 53, 17, 5, 1, 3, ExporterA, 2),
    ApiFlow(<<8, 8, 8, 8>>, 53, <<10, 0, 0, 1>>, 1234, 17, 4, 3, 1, ExporterA, 2),
    ApiFlow(<<10, 0, 0, 1>>, 1234, <<8, 8, 8, 8>>, 53, 6, 2, 1, 3, ExporterA, 2),
    ApiFlow(<<10, 0, 0, 1>>, 9, <<10, 0, 0, 1>>, 80, 6, 3, 1, 1, ExporterA, 2) }

NextConversations ==
  \/ \E f \in ConversationFlows : queried = NoQueried /\ StoreExport(f)
  \/ \E args \in ConsumerArgs : CallQueryConversations(args)

SpecConversations == InitConsumers /\ [][NextConversations]_vars

\* the stored flows a call with the filter counts
Counted(filter) ==
  { i \in 1..Len(flows) : IsEmpty(filter) \/ Matches(filter, flows[i]) }

\* the counted flows between the endpoints of a conversation, and those of
\* them that endpoint A sent
Between(c, filter) ==
  { i \in Counted(filter) :
      /\ flows[i].Protocol = c.Protocol
      /\ \/ /\ Endpoint(flows[i].SrcAddr, flows[i].SrcPort) = Endpoint(c.AddrA, c.PortA)
            /\ Endpoint(flows[i].DstAddr, flows[i].DstPort) = Endpoint(c.AddrB, c.PortB)
         \/ /\ Endpoint(flows[i].SrcAddr, flows[i].SrcPort) = Endpoint(c.AddrB, c.PortB)
            /\ Endpoint(flows[i].DstAddr, flows[i].DstPort) = Endpoint(c.AddrA, c.PortA) }
FromA(c, filter) ==
  { i \in Between(c, filter) :
      Endpoint(flows[i].SrcAddr, flows[i].SrcPort) = Endpoint(c.AddrA, c.PortA) }

\* the sum of a counter over the stored flows of the places in S
SumAt(S, Val(_)) == SumSeq([i \in 1..Len(flows) |-> IF i \in S THEN Val(flows[i]) ELSE 0], 1)

\* C33: what QueryConversations returned: the endpoint A of a conversation is
\* not greater, as a string, than its endpoint B; its AtoB counters sum the
\* counted flows between its endpoints that endpoint A sent and its BtoA
\* counters the others; it is bidirectional iff both flow counts are
\* positive; a flow and its reverse are in one conversation (no two
\* conversations have the same endpoints and protocol); without a limit every
\* counted flow is in a conversation and the TotalBytes of the conversations
\* sum to the bytes of the counted flows
C33_ConversationFold ==
  queried # NoQueried /\ queried.call = "QueryConversations" =>
    /\ \A n \in 1..Len(queried.ret) :
         /\ ~StrLess(Endpoint(queried.ret[n].AddrB, queried.ret[n].PortB),
                     Endpoint(queried.ret[n].AddrA, queried.ret[n].PortA))
         /\ queried.ret[n].BytesAtoB =
              SumAt(FromA(queried.ret[n], queried.args.filter), LAMBDA f : f.Bytes)
         /\ queried.ret[n].PacketsAtoB =
              SumAt(FromA(queried.ret[n], queried.args.filter), LAMBDA f : f.Packets)
         /\ queried.ret[n].FlowsAtoB = Cardinality(FromA(queried.ret[n], queried.args.filter))
         /\ queried.ret[n].BytesBtoA =
              SumAt(Between(queried.ret[n], queried.args.filter) \
                      FromA(queried.ret[n], queried.args.filter), LAMBDA f : f.Bytes)
         /\ queried.ret[n].PacketsBtoA =
              SumAt(Between(queried.ret[n], queried.args.filter) \
                      FromA(queried.ret[n], queried.args.filter), LAMBDA f : f.Packets)
         /\ queried.ret[n].FlowsBtoA =
              Cardinality(Between(queried.ret[n], queried.args.filter) \
                            FromA(queried.ret[n], queried.args.filter))
         /\ IsBidirectional(queried.ret[n]) <=>
              (\E i, j \in Between(queried.ret[n], queried.args.filter) :
                 flows[i].SrcAddr = flows[j].DstAddr /\ flows[i].SrcPort = flows[j].DstPort /\
                 <<flows[i].SrcAddr, flows[i].SrcPort>> # <<flows[j].SrcAddr, flows[j].SrcPort>>)
         /\ \A m \in 1..Len(queried.ret) :
              /\ queried.ret[m].AddrA = queried.ret[n].AddrA
              /\ queried.ret[m].PortA = queried.ret[n].PortA
              /\ queried.ret[m].AddrB = queried.ret[n].AddrB
              /\ queried.ret[m].PortB = queried.ret[n].PortB
              /\ queried.ret[m].Protocol = queried.ret[n].Protocol
              => m = n
    /\ queried.args.limit = 0 =>
         /\ \A i \in Counted(queried.args.filter) :
              \E n \in 1..Len(queried.ret) : i \in Between(queried.ret[n], queried.args.filter)
         /\ SumSeq([n \in 1..Len(queried.ret) |-> TotalBytes(queried.ret[n])], 1) =
              SumAt(Counted(queried.args.filter), LAMBDA f : f.Bytes)

\* a query, its answer and the connection between the two ports were stored;
\* QueryConversations returned two conversations: a bidirectional one whose
\* endpoint A is 10.0.0.1:1234, with the bytes of the query from A to B and
\* those of the answer from B to A, and one whose endpoint A is 10.0.0.1:80,
\* the destination of its only flow
C33_Witness ==
  /\ queried # NoQueried
  /\ queried.call = "QueryConversations"
  /\ queried.args.limit = 0
  /\ Len(flows) = 3
  /\ Len(queried.ret) = 2
  /\ \E n \in 1..2 :
       /\ queried.ret[n].AddrA = <<10, 0, 0, 1>> /\ queried.ret[n].PortA = 1234
       /\ queried.ret[n].BytesAtoB = 5 /\ queried.ret[n].BytesBtoA = 4
       /\ IsBidirectional(queried.ret[n])
  /\ \E n \in 1..2 :
       /\ queried.ret[n].PortA = 80 /\ queried.ret[n].PortB = 9
       /\ queried.ret[n].FlowsAtoB = 0 /\ queried.ret[n].FlowsBtoA = 1
       /\ ~IsBidirectional(queried.ret[n])

\* ---------------------------------------------------------------------------
\* Templates with field widths of the exporter's choice
\* ---------------------------------------------------------------------------

\* the field types a template may give any width, and the widths
WidthTypes == {NF9_PROTOCOL, NF9_L4_SRC_PORT, NF9_FIRST_SWITCHED, IPFIX_FLOW_START_MILLISEC}
Widths == {0, 1, 2, 4}
CounterWidths == {2, 3}

\* template 256 with a field of a type and a width followed by a byte counter
\* of a width
WidthFields(type, length, counter) ==
  <<[Type |-> type, Length |-> length], [Type |-> NF9_IN_BYTES, Length |-> counter]>>

\* a datagram that announces the template and holds one record of it, every
\* byte of which is 1
WidthDatagram(version, type, length, counter) ==
  [version |-> version,
   sets |-> <<TemplateSet(256, WidthFields(type, length, counter)),
              DataSet(256, [i \in 1..(length + counter) |-> 1])>>]

WidthDatagrams ==
  { WidthDatagram(version, type, length, counter) :
      version \in Versions, type \in WidthTypes, length \in Widths, counter \in CounterWidths }

NextWidths == \E dg \in WidthDatagrams : ParseDatagram(dg, ExporterA)

SpecWidths == InitParser /\ [][NextWidths]_vars

\* the width the decoder reads of a field of the type, whatever the template
\* declares
WidthRead(version, type) ==
  CASE type = NF9_PROTOCOL -> 1
    [] type = NF9_L4_SRC_PORT -> 2
    [] type = NF9_FIRST_SWITCHED -> 4
    [] type = IPFIX_FLOW_START_MILLISEC -> IF version = IPFIX THEN 8 ELSE 0

\* C34: whatever widths the template of a datagram declares, no decoder has
\* failed at run time and Parse of the datagram does not; a byte counter of
\* a width other than 1, 2, 4 or 8 decodes to 0
C34_UnfamiliarWidths ==
  /\ ~crashed
  /\ \A version \in Versions, type \in WidthTypes, length \in Widths, counter \in CounterWidths :
       \A r \in {Parse(Encode(WidthDatagram(version, type, length, counter)), ExporterA,
                       parser, now)} :
         /\ ~r.panic
         /\ counter \notin {1, 2, 4, 8} => \A i \in 1..Len(r.flows) : r.flows[i].Bytes = 0

\* what holds: Parse fails at run time exactly for the fields declared
\* shorter than the decoder reads, and where it does not fail it returns the
\* record with the counter read by its width, 0 for a counter of 3 bytes
WidthsDecoded ==
  ~crashed =>
    \A version \in Versions, type \in WidthTypes, length \in Widths, counter \in CounterWidths :
      \A r \in {Parse(Encode(WidthDatagram(version, type, length, counter)), ExporterA,
                      parser, now)} :
        /\ r.panic <=> length < WidthRead(version, type)
        /\ ~r.panic =>
             /\ Len(r.flows) = 1
             /\ r.flows[1].Bytes = IF counter = 2 THEN 257 ELSE 0

\* ---------------------------------------------------------------------------
\* The lock of the store and the eviction configuration
\* ---------------------------------------------------------------------------

\* the configurations the display may set
ConfigChoices ==
  { [TopKPercent |-> 50, LRUWindow |-> 1], [TopKPercent |-> 100, LRUWindow |-> 2] }

\* the ingest goroutine adds a flow at a time, the display clears, marks,
\* sets the configuration and reads the statistics and the configuration
NextLocks ==
  \/ \E batch \in {<<MkFlow(TupleA, 1)>>} : AddLock(batch) /\ UNCHANGED <<parserVars, pipeVars, apiVars>>
  \/ AddFlow /\ UNCHANGED <<parserVars, pipeVars, apiVars>>
  \/ AddFinish /\ UNCHANGED <<parserVars, pipeVars, apiVars>>
  \/ GetStatsRLock /\ UNCHANGED <<parserVars, pipeVars, apiVars>>
  \/ GetStatsReturn /\ UNCHANGED <<parserVars, pipeVars, apiVars>>
  \/ ReaderDone /\ UNCHANGED <<parserVars, pipeVars, apiVars>>
  \/ LockedClear /\ UNCHANGED <<parserVars, pipeVars, apiVars>>
  \/ \E key \in {FlowKey(MkFlow(TupleA, 1))} :
        LockedMarkFlowAccessed(key) /\ UNCHANGED <<parserVars, pipeVars, apiVars>>
  \/ \E config \in ConfigChoices :
        SetEvictionConfigLock(config) /\ UNCHANGED <<parserVars, pipeVars, apiVars>>
  \/ SetEvictionConfigFirst /\ UNCHANGED <<parserVars, pipeVars, apiVars>>
  \/ SetEvictionConfigSecond /\ UNCHANGED <<parserVars, pipeVars, apiVars>>
  \/ GetEvictionConfigFirst /\ UNCHANGED <<parserVars, pipeVars, apiVars>>
  \/ GetEvictionConfigSecond /\ UNCHANGED <<parserVars, pipeVars, apiVars>>
  \/ GetEvictionConfigDone /\ UNCHANGED <<parserVars, pipeVars, apiVars>>

SpecLocks == InitConc /\ [][NextLocks]_vars

\* C35: no read of mutable store state is concurrent with a write of it: a
\* reader that is between its reads (GetStats, GetEvictionConfig) finds no
\* writer holding the lock, and what GetEvictionConfig returns is a
\* configuration the store held at an instant of the call
C35_LockDiscipline ==
  /\ rdPc = "stats" => ~mu.writer
  /\ getPc = "half" => ~mu.writer
  /\ getPc = "ret" => getRet \in held

\* the operations that take the lock keep the discipline
LockedReadsExcludeWriters ==
  /\ rdPc \in {"stats", "query"} => ~mu.writer /\ mu.readers > 0
  /\ mu.writer => mu.readers = 0
  /\ mu.writer <=> addPc = "loop" \/ cfgPc \in {"locked", "half"}

\* GetEvictionConfig alone breaks it: it reads while SetEvictionConfig holds
\* the lock, and it may return a configuration made of the halves of two
UnlockedConfigRead == getPc = "half" => ~(mu.writer /\ cfgPc # "idle")
TornConfigRead == getPc = "ret" => getRet \in held

\* ---------------------------------------------------------------------------
\* The flows added, stored and evicted
\* ---------------------------------------------------------------------------

\* C36: as long as Clear was not called, the flows ever added are those still
\* stored and those counted as evicted:
\* Stats.TotalFlows = GetFlowCount() + EvictionStats.TotalEvicted
C36_EvictionAccounting ==
  stats.TotalFlows = GetFlowCount(flows) + evictionStats.TotalEvicted

\* three flows were added to a store of one, two were evicted
C36_Witness ==
  /\ stats.TotalFlows = 3
  /\ GetFlowCount(flows) = 1
  /\ evictionStats.TotalEvicted = 2

\* a pass that met its budget in part only: a flow was evicted and the store
\* is over its cap
PartlyEvicted == evictionStats.TotalEvicted > 0 /\ GetFlowCount(flows) > maxFlows

\* C37: with 0 <= topKPercent <= 100 the store holds at most maxFlows flows
\* whenever no Add is in progress: every pass meets its budget
C37_StrictCap ==
  evictionConfig.TopKPercent >= 0 /\ evictionConfig.TopKPercent <= 100 =>
    /\ GetFlowCount(flows) <= maxFlows
    /\ \A p \in Passes : Cardinality(p.removed) = p.toEvict

\* the store protects as many elephants as it holds flows; a pass protected
\* one, removed flows and left the store full
C37_Witness ==
  /\ evictionConfig.TopKPercent = 100
  /\ evictionStats.TotalEvicted > 0
  /\ evictionStats.TopKProtected = maxFlows
  /\ GetFlowCount(flows) = maxFlows

\* ---------------------------------------------------------------------------
\* HandleFlows beside the ingest goroutine and the display
\* ---------------------------------------------------------------------------

\* the filter HandleFlows passes to the store
FlowsFilter(req) == IF req.filter # <<>> THEN ParseFilter(req.filter) ELSE NilFilter

\* HandleFlows up to h.store.Query, which holds the read lock from its first
\* statement to its last; an invalid filter ends the handler
HandleFlowsQuery(req) ==
  /\ hfPc = "idle"
  /\ req.path = "/api/v1/flows"
  /\ request' = req
  /\ IF req.filter # <<>> /\ ~IsValid(ParseFilter(req.filter))
     THEN /\ response' = writeError(400, "Invalid filter", ParseFilter(req.filter).Error)
          /\ UNCHANGED hfVars
     ELSE /\ RLockAvailable(mu)
          /\ \E q \in QueryResults(flows, [filter |-> FlowsFilter(req), sortBy |-> SortOf(req.sort),
                                            ascending |-> req.asc,
                                            limit |-> IF req.limit > 0 THEN req.limit ELSE 100]) :
               hfFlows' = q
          /\ hfPc' = "count"
          /\ response' = NoResponse
          /\ UNCHANGED hfTotal
  /\ UNCHANGED <<matched, queried, roundTrip, passed, storeVars, parserVars, pipeVars>>
  /\ UNCHANGED <<mu, addVars, rdVars, rdSnaps, cfgPc, cfgArg, getPc, getRet, held>>

\* total := h.store.GetFlowCount()
HandleFlowsCount ==
  /\ hfPc = "count"
  /\ RLockAvailable(mu)
  /\ hfTotal' = GetFlowCount(flows)
  /\ hfPc' = "filtered"
  /\ UNCHANGED <<hfFlows, apiVars, storeVars, parserVars, pipeVars>>
  /\ UNCHANGED <<mu, addVars, rdVars, rdSnaps, cfgPc, cfgArg, getPc, getRet, held>>

\* filtered := h.store.GetFilteredCount(filter), and the response
HandleFlowsWrite ==
  /\ hfPc = "filtered"
  /\ RLockAvailable(mu)
  /\ response' = Response(200, "", <<>>,
                          [i \in 1..Len(hfFlows) |-> FlowToResponse(hfFlows[i], ServiceName(hfFlows[i]))],
                          hfTotal, GetFilteredCount(flows, FlowsFilter(request)), NoData, "",
                          request.filter)
  /\ hfPc' = "idle"
  /\ hfFlows' = <<>>
  /\ hfTotal' = 0
  /\ UNCHANGED <<request, matched, queried, roundTrip, passed, storeVars, parserVars, pipeVars>>
  /\ UNCHANGED <<mu, addVars, rdVars, rdSnaps, cfgPc, cfgArg, getPc, getRet, held>>

\* the requests for the flows: all of them, those of a protocol, and a
\* filter that does not parse
RaceRequests ==
  { FlowsRequest(<<>>, 0, "", FALSE),
    FlowsRequest(<<"p", "r", "o", "t", "o", "=", "u", "d", "p">>, 0, "", FALSE),
    FlowsRequest(<<"(", "p", "o", "r", "t", "=", "5", "3">>, 0, "", FALSE) }

\* the ingest goroutine adds a flow at a time, the display clears, a client
\* asks for the flows
NextRace ==
  \/ \E batch \in {<<MkFlow(TupleA, 1)>>, <<MkFlow(TupleB, 2)>>} : AddLock(batch) /\ UNCHANGED <<parserVars, pipeVars, apiVars>>
  \/ AddFlow /\ UNCHANGED <<parserVars, pipeVars, apiVars>>
  \/ AddFinish /\ UNCHANGED <<parserVars, pipeVars, apiVars>>
  \/ LockedClear /\ UNCHANGED <<parserVars, pipeVars, apiVars>>
  \/ \E req \in RaceRequests : HandleFlowsQuery(req)
  \/ HandleFlowsCount
  \/ HandleFlowsWrite

SpecRace == InitConc /\ [][NextRace]_vars

\* C38: a response to a request for the flows has
\* len(flows) <= filtered <= total
C38_FlowsConsistent ==
  request.path = "/api/v1/flows" /\ response.status = 200 =>
    /\ Len(response.flows) <= response.filtered
    /\ response.filtered <= response.total

\* the two halves
FlowsWithinFiltered ==
  request.path = "/api/v1/flows" /\ response.status = 200 =>
    Len(response.flows) <= response.filtered
FilteredWithinTotal ==
  request.path = "/api/v1/flows" /\ response.status = 200 =>
    response.filtered <= response.total

\* ---------------------------------------------------------------------------
\* The loops of the parser
\* ---------------------------------------------------------------------------

\* the loop has ended
Exit == 0 - 1

\* a faulty variant of V9FlowSetNext: the flowset length is not checked against 4
V9FlowSetNextAnyLength(data, i, count, offset) ==
  IF ~(i < count /\ offset + netflowV9FlowsetHdrSize <= Len(data)) THEN Exit
  ELSE IF offset + U16(data, offset + 2) > Len(data) THEN Exit
  ELSE offset + U16(data, offset + 2)

\* parseNetFlowV9, "Process FlowSets": the offset after the i-th iteration
\* that started at offset, Exit when the condition of the loop or the break
\* ends it
V9FlowSetNext(data, i, count, offset) ==
  IF ~(i < count /\ offset + netflowV9FlowsetHdrSize <= Len(data)) THEN Exit
  ELSE IF U16(data, offset + 2) < 4 \/ offset + U16(data, offset + 2) > Len(data) THEN Exit
  ELSE offset + U16(data, offset + 2)

\* parseIPFIX, "Process Sets"
IPFIXSetNext(data, length, offset) ==
  IF ~(offset + ipfixSetHeaderSize <= length) THEN Exit
  ELSE IF U16(data, offset + 2) < 4 \/ offset + U16(data, offset + 2) > length THEN Exit
  ELSE offset + U16(data, offset + 2)

\* parseV9Templates: the loop over the template records of a flowset
V9TemplateNext(data, offset) ==
  IF offset + 4 > Len(data) THEN Exit
  ELSE IF U16(data, offset + 2) * 4 + offset + 4 > Len(data) THEN Exit
  ELSE offset + 4 + 4 * U16(data, offset + 2)

\* parseIPFIXTemplates: the loop over the template records of a set
IPFIXTemplateNext(data, offset) ==
  IF offset + 4 > Len(data) THEN Exit
  ELSE parseIPFIXFields(data, offset + 4, 0, U16(data, offset + 2), <<>>).offset

\* parseV9DataFlowSet, parseIPFIXDataSet: the loop over the records; it is
\* not entered with a record length of 0
RecordNext(data, recordLen, offset) ==
  IF recordLen = 0 THEN Exit
  ELSE IF offset + recordLen <= Len(data) THEN offset + recordLen
  ELSE Exit

\* a loop over data: its kind and what it is bounded by (the count of the v9
\* header, the length of the IPFIX header, the record length)
Loop(kind, data, bound) == [kind |-> kind, data |-> data, bound |-> bound]

LoopNext(loop, i, offset) ==
  CASE loop.kind = "v9 flowsets" -> V9FlowSetNext(loop.data, i, loop.bound, offset)
    [] loop.kind = "IPFIX sets" -> IPFIXSetNext(loop.data, loop.bound, offset)
    [] loop.kind = "v9 templates" -> V9TemplateNext(loop.data, offset)
    [] loop.kind = "IPFIX templates" -> IPFIXTemplateNext(loop.data, offset)
    [] loop.kind = "records" -> RecordNext(loop.data, loop.bound, offset)

\* the offsets the iterations of a loop start at, the i-th at offset, up to
\* as many iterations as fuel allows
RECURSIVE LoopOffsets(_, _, _, _)
LoopOffsets(loop, i, offset, fuel) ==
  IF LoopNext(loop, i, offset) = Exit \/ fuel = 0 THEN <<offset>>
  ELSE <<offset>> \o LoopOffsets(loop, i + 1, LoopNext(loop, i, offset), fuel - 1)

\* a loop that moves on by a byte at least has ended after len(data) + 1
\* iterations
Fuel(loop) == Len(loop.data) + 1

\* every iteration of the loop started at offset moves the offset on, and
\* the loop ends
Terminates(loop, offset) ==
  \A s \in {LoopOffsets(loop, 0, offset, Fuel(loop))} :
    /\ Increasing(s, 1)
    /\ LoopNext(loop, Len(s) - 1, s[Len(s)]) = Exit

\* the loop over the flowsets or sets of a datagram with a whole header, the
\* offset it starts at, and the bodies of the flowsets it passes
SetLoop(data) ==
  IF U16(data, 0) = 9 THEN Loop("v9 flowsets", data, U16(data, 2))
  ELSE Loop("IPFIX sets", data, U16(data, 2))
SetLoopStart(data) == IF U16(data, 0) = 9 THEN netflowV9HeaderSize ELSE ipfixHeaderSize
HasSetLoop(data) ==
  /\ Len(data) >= 2
  /\ \/ U16(data, 0) = 9 /\ Len(data) >= netflowV9HeaderSize
     \/ U16(data, 0) = 10 /\ Len(data) >= ipfixHeaderSize /\ U16(data, 2) <= Len(data)
SetBodies(data) ==
  { Slice(data, o[1] + 4, o[2]) :
      o \in { <<s[k], s[k + 1]>> :
                s \in {LoopOffsets(SetLoop(data), 0, SetLoopStart(data), Fuel(SetLoop(data)))},
                k \in 1..(Len(LoopOffsets(SetLoop(data), 0, SetLoopStart(data),
                                           Fuel(SetLoop(data)))) - 1) } }

\* a v9 datagram given its count and its flowsets as bytes
V9Message(count, sets) ==
  B16(9) \o B16(count) \o B32(SysUptime) \o B32(UnixSecs) \o B32(0) \o B32(SourceID) \o sets

\* the field lists of the templates: none, a counter of no bytes, a counter
FieldsNone == <<>>
FieldsZ == <<[Type |-> NF9_IN_BYTES, Length |-> 0]>>

\* datagrams whose lengths and counts are not what a decoder hopes for: a
\* flowset of length 0 and one of length 3, a header that counts more
\* flowsets than there are, a template of no fields and one of total length
\* 0 before data of theirs, a template set cut off inside a template record,
\* and two records of a sound template
LoopWire ==
  { V9Message(1, B16(256) \o B16(0)),
    V9Message(2, B16(256) \o B16(3) \o Zeros(4)),
    V9Message(5, B16(256) \o B16(6) \o Zeros(2)),
    V9Message(1, B16(0) \o B16(10) \o B16(256) \o B16(5) \o B16(1)),
    IPFIXMessage(B16(256) \o B16(0)),
    IPFIXMessage(B16(256) \o B16(3) \o Zeros(4)),
    IPFIXMessage(IPFIXSet(2, B16(256) \o B16(5) \o B16(1) \o B16(4) \o B16(2))) } \cup
  { Encode([version |-> v, sets |-> s]) :
      v \in Versions,
      s \in { <<TemplateSet(256, FieldsNone), DataSet(256, <<1, 2>>)>>,
              <<TemplateSet(256, FieldsZ), DataSet(256, <<1, 2>>)>>,
              <<DataSet(256, <<1, 2>>)>>,
              <<TemplateSet(256, FieldsB), DataSet(256, <<0, 0, 0, 9, 0, 0, 0, 8>>)>> } }

NextLoops == \E data \in LoopWire : IngestDatagram(data, ExporterA)

SpecLoops == InitIngest /\ [][NextLoops]_vars

\* the templates the parser has cached
TemplatesOf(cache) == UNION { { cache[sid][tid] : tid \in DOMAIN cache[sid] } : sid \in DOMAIN cache }
CachedTemplates(p) == TemplatesOf(p.v9Templates) \cup TemplatesOf(p.ipfixTemplates)

\* C39: whatever templates the parser has cached, Parse of a datagram
\* returns, and each of its loops moves its offset on in every iteration and
\* ends: the loop over the flowsets or sets, the loop over the template
\* records of each flowset body, and the loop over the records of each
\* flowset body under every cached template
C39_ParserTermination ==
  \A data \in LoopWire :
    /\ Parse(data, ExporterA, parser, now).err \in BOOLEAN
    /\ HasSetLoop(data) =>
         /\ Terminates(SetLoop(data), SetLoopStart(data))
         /\ \A body \in SetBodies(data) :
              /\ Terminates(Loop("v9 templates", body, 0), 0)
              /\ Terminates(Loop("IPFIX templates", body, 0), 0)
              /\ \A template \in CachedTemplates(parser) :
                   Terminates(Loop("records", body, template.Length), 0)

\* a template of total length 0 is cached for one version and the 4-byte
\* counter for the other, and the last datagram gave two flows
C39_Witness ==
  /\ \E template \in CachedTemplates(parser) : template.Length = 0
  /\ \E template \in CachedTemplates(parser) : template.Length = 4
  /\ received >= 2
  /\ ingestResult = "ok"
  /\ stats.TotalFlows = 2

====
